---- MODULE Spec2Model ----
(***************************************************************************)
(* A model of can4python: the CanBus facade (canbus.py), the BCM           *)
(* interface (caninterface_bcm.py), the frame and signal codec             *)
(* (canframe.py, canframe_definition.py, cansignal.py, utilities.py).      *)
(*                                                                         *)
(* Representation of Python values:                                        *)
(*   - None is the empty tuple << >>; an optional number is << >> or <<n>>.*)
(*   - a Python int that may exceed 31 bits (the 64-bit payload integer,   *)
(*     the mantissa of a float) is the set of the positions of its one     *)
(*     bits ("bit set"): 5 is {0, 2}.  & is \cap, | is \cup.               *)
(*   - a bytes object is a sequence of numbers 0..255.                     *)
(*   - a Python float is a record [m, e] with value m * 2^e, m a bit set   *)
(*     with its highest bit at position 52 (IEEE-754 double), or m = {}.   *)
(***************************************************************************)
EXTENDS Integers, Sequences, FiniteSets, TLC

(***************************************************************************)
(* constants.py                                                            *)
(***************************************************************************)
LITTLE_ENDIAN == "little"
BIG_ENDIAN == "big"
CAN_SIGNALTYPE_UNSIGNED == "unsigned"
CAN_SIGNALTYPE_SIGNED == "signed"
CAN_SIGNALTYPE_SINGLE == "single"
CAN_SIGNALTYPE_DOUBLE == "double"
MAX_NUMBER_OF_CAN_DATA_BYTES == 8
BITS_PER_BYTE == 8
BITS_IN_FULL_DATA == MAX_NUMBER_OF_CAN_DATA_BYTES * BITS_PER_BYTE
CAN_FRAMEFORMAT_STANDARD == "standard"
CAN_FRAMEFORMAT_EXTENDED == "extended"
MAX_CAN_FRAME_ID_STANDARD == 2047
MAX_CAN_FRAME_ID_EXTENDED == 536870911
CAN_MASK_RECEIVE_ONLY_ONE_FRAMENUMBER == 2047
BCM_FLAG_SETTIMER == 1
BCM_FLAG_STARTTIMER == 2
BCM_FLAG_RX_FILTER_ID == 32
BCM_FLAG_RX_CHECK_DLC == 64
MICROSECONDS_PER_SECOND == 1000000
MILLISECONDS_PER_SECOND == 1000
MAX_NUMBER_OF_RAW_RECEIVE_FILTERS == 100
MAX_FRAME_CYCLETIME_MILLISECONDS == 60000
STATUS_NONPERIODIC == 1
STATUS_PERIODIC == 2
STATUS_PERIODIC_NOT_YET_STARTED == 3

\* The opcodes of the Linux BCM that the interface uses (socket.CAN_BCM_*).
CAN_BCM_TX_SETUP == 1
CAN_BCM_TX_DELETE == 2
CAN_BCM_TX_SEND == 4
CAN_BCM_RX_SETUP == 5
CAN_BCM_RX_DELETE == 6
CAN_BCM_RX_CHANGED == 12

\* Python's None, and optional values.
None == << >>
Some(v) == << v >>
Val(o) == o[1]

\* The one bits of every octet.
OctetBits == [b \in 0..255 |-> { i \in 0..(BITS_PER_BYTE - 1) : (b \div (2 ^ i)) % 2 = 1 }]

(***************************************************************************)
(* Python integers as bit sets.                                            *)
(***************************************************************************)
\* The bit set of a small non-negative integer.
IntToBits(n) ==
    IF n \in DOMAIN OctetBits THEN OctetBits[n]
    ELSE { i \in 0..30 : 2 ^ i <= n /\ (n \div (2 ^ i)) % 2 = 1 }

\* The integer of a bit set below 2^31.
RECURSIVE BitsToInt(_)
BitsToInt(S) ==
    IF S = {} THEN 0
    ELSE LET i == CHOOSE x \in S : TRUE IN (2 ^ i) + BitsToInt(S \ {i})

\* value << n and value >> n.
Shl(S, n) == { i + n : i \in S }
Shr(S, n) == { i - n : i \in { j \in S : j >= n } }

\* The position of the highest one bit; -1 for zero.
MaxBit(S) ==
    IF S = {} THEN 0 - 1
    ELSE LET T == { 0 - i : i \in S } IN 0 - (CHOOSE m \in T : \A j \in T : m <= j)

\* a | b on small integers (flags |= constant).
BitOrInt(a, b) == BitsToInt(IntToBits(a) \cup IntToBits(b))

\* a & b # 0 on small integers.
HasFlag(flags, f) == IntToBits(flags) \cap IntToBits(f) # {}

\* a + b on bit sets: bit i of the sum is a_i xor b_i xor the carry into i,
\* and a carry enters i when some lower position generates one that every
\* position between propagates.
AddBig(A, B) ==
    LET CarryInto(i) ==
            \E j \in A \cap B : j < i /\ \A k \in (j + 1)..(i - 1) : k \in A \cup B
    IN  { i \in 0..(MaxBit(A \cup B) + 1) : ((i \in A) # (i \in B)) # CarryInto(i) }

\* a - b on bit sets, for a >= b: bit i is a_i xor b_i xor the borrow from i.
SubBig(A, B) ==
    LET BorrowFrom(i) ==
            \E j \in B \ A : j < i /\ \A k \in (j + 1)..(i - 1) : k \notin A \ B
    IN  { i \in 0..MaxBit(A \cup B) : ((i \in A) # (i \in B)) # BorrowFrom(i) }

\* a * b on bit sets: the sum of the shifts of a by the one bits of b.
RECURSIVE MulBig(_, _)
MulBig(A, B) ==
    IF B = {} THEN {}
    ELSE LET i == CHOOSE x \in B : TRUE
         IN  AddBig(Shl(A, i), MulBig(A, B \ {i}))

\* floor(a / d) and a mod d for a bit set a and a positive integer d < 2^17:
\* long division on the digits of a in base 1024, from digit i down to
\* digit 0; rem is the running remainder.
RECURSIVE DivSmallFrom(_, _, _, _, _)
DivSmallFrom(A, d, i, rem, quot) ==
    IF i < 0
    THEN [q |-> quot, r |-> rem]
    ELSE LET cur == 1024 * rem + BitsToInt({ b \in 0..9 : (10 * i + b) \in A })
         IN  DivSmallFrom(A, d, i - 1, cur % d,
                          quot \cup { 10 * i + b : b \in IntToBits(cur \div d) })

DivSmall(A, d) == DivSmallFrom(A, d, (MaxBit(A) + 1) \div 10, 0, {})

(***************************************************************************)
(* Python floats (IEEE-754 double precision, round to nearest even).       *)
(***************************************************************************)
MantissaBits == 53

\* The double nearest to N * 2^e (+ a nonzero fraction below the last bit of
\* N when sticky): keep the 53 highest bits, round to nearest, ties to even.
RoundToDouble(N, e, sticky) ==
    IF N = {} THEN [m |-> {}, e |-> 0]
    ELSE LET top == MaxBit(N)
             drop == top - (MantissaBits - 1)
         IN  IF drop <= 0
             THEN [m |-> Shl(N, 0 - drop), e |-> e + drop]
             ELSE LET kept == Shr(N, drop)
                      half == (drop - 1) \in N
                      rest == sticky \/ (\E i \in N : i < drop - 1)
                      up == half /\ (rest \/ 0 \in kept)
                      rounded == IF up THEN AddBig(kept, {0}) ELSE kept
                  IN  IF MantissaBits \in rounded
                      THEN [m |-> Shr(rounded, 1), e |-> e + drop + 1]
                      ELSE [m |-> rounded, e |-> e + drop]

\* The integer part of a float x >= 0, as a bit set.
FloatBits(x) == IF x.e >= 0 THEN Shl(x.m, x.e) ELSE Shr(x.m, 0 - x.e)

(***************************************************************************)
(* Python numbers that hold an integer (an int of any size, or a float     *)
(* with an integer value): the sign and the bit set of the magnitude;      *)
(* zero is not negative.                                                   *)
(***************************************************************************)
NumOf(neg, mag) == [neg |-> neg /\ mag # {}, mag |-> mag]

\* The number of an integer below 2^31 in magnitude.
Num(n) ==
    IF n \in { 0, 1 } THEN [neg |-> FALSE, mag |-> { i \in {0} : n = 1 }]
    ELSE IF n < 0 THEN NumOf(TRUE, IntToBits(0 - n)) ELSE NumOf(FALSE, IntToBits(n))

\* a < b on bit sets, and on numbers.
BigLess(A, B) == \E m \in B \ A : \A j \in A \ B : j < m

NumLess(a, b) ==
    IF a.neg # b.neg THEN a.neg
    ELSE IF a.neg THEN BigLess(b.mag, a.mag) ELSE BigLess(a.mag, b.mag)

NumAdd(a, b) ==
    IF b.mag = {} THEN a
    ELSE IF a.neg = b.neg THEN NumOf(a.neg, AddBig(a.mag, b.mag))
    ELSE IF BigLess(a.mag, b.mag) THEN NumOf(b.neg, SubBig(b.mag, a.mag))
    ELSE NumOf(a.neg, SubBig(a.mag, b.mag))

NumSub(a, b) == NumAdd(a, NumOf(~b.neg, b.mag))

NumMul(a, b) ==
    IF b.mag = {0} THEN NumOf(a.neg # b.neg, a.mag)
    ELSE NumOf(a.neg # b.neg, MulBig(a.mag, b.mag))

\* float(a): the double nearest to the integer a (an integer again); an
\* integer below 2^53 is a double.
ToFloat(a) ==
    IF \A i \in a.mag : i < MantissaBits THEN a
    ELSE NumOf(a.neg, FloatBits(RoundToDouble(a.mag, 0, FALSE)))

(***************************************************************************)
(* utilities.py.  The result of an operation that can raise is a record    *)
(* whose field exc is "none" or the name of the exception class.           *)
(***************************************************************************)
calculate_backward_bitnumber(normal_bitnumber) ==
    LET bytenumber == normal_bitnumber \div BITS_PER_BYTE
        offset_in_the_byte == normal_bitnumber - bytenumber * BITS_PER_BYTE
        basevalue_per_byte == (MAX_NUMBER_OF_CAN_DATA_BYTES - 1 - bytenumber) * BITS_PER_BYTE
    IN  basevalue_per_byte + offset_in_the_byte

\* bytes.ljust(8, NULL_BYTE)
LjustNull(b) ==
    [k \in 1..MAX_NUMBER_OF_CAN_DATA_BYTES |-> IF k <= Len(b) THEN b[k] ELSE 0]

NullBytes(n) == [k \in 1..n |-> 0]

\* The weight of bit i of a bit set.
BitWeight(S, i, weight) == IF i \in S THEN weight ELSE 0

\* struct.unpack(">Q", 8 bytes): byte 0 is the most significant octet.
can_bytes_to_int(input_bytes) ==
    UNION { { BITS_PER_BYTE * (MAX_NUMBER_OF_CAN_DATA_BYTES - k) + j : j \in OctetBits[input_bytes[k]] }
            : k \in 1..Len(input_bytes) }

\* struct.pack(">Q", dataint)[0:dlc]
int_to_can_bytes(dlc, dataint) ==
    [k \in 1..dlc |->
        LET lsb == BITS_PER_BYTE * (MAX_NUMBER_OF_CAN_DATA_BYTES - k)
        IN  BitWeight(dataint, lsb, 1) + BitWeight(dataint, lsb + 1, 2)
            + BitWeight(dataint, lsb + 2, 4) + BitWeight(dataint, lsb + 3, 8)
            + BitWeight(dataint, lsb + 4, 16) + BitWeight(dataint, lsb + 5, 32)
            + BitWeight(dataint, lsb + 6, 64) + BitWeight(dataint, lsb + 7, 128)]

\* value is a number; the result holds a number that is not negative.
twos_complement(value, bits) ==
    LET maxvalue == NumOf(FALSE, 0..(bits - 2))
        minvalue == NumOf(TRUE, {bits - 1})
    IN  IF NumLess(maxvalue, value) \/ NumLess(value, minvalue)
        THEN [exc |-> "CanException", value |-> Num(0)]
        ELSE IF ~value.neg
             THEN [exc |-> "none", value |-> value]
             ELSE [exc |-> "none", value |-> NumAdd(value, NumOf(FALSE, {bits}))]

\* value is a number that is not negative.
from_twos_complement(value, bits) ==
    LET maxvalue == NumOf(FALSE, 0..(bits - 1))
        max_positive_value == NumOf(FALSE, 0..(bits - 2))
    IN  IF value.neg \/ NumLess(maxvalue, value)
        THEN [exc |-> "CanException", value |-> Num(0)]
        ELSE IF ~NumLess(max_positive_value, value)
             THEN [exc |-> "none", value |-> value]
             ELSE [exc |-> "none", value |-> NumSub(value, NumOf(FALSE, {bits}))]

\* seconds_float is a float >= 0.  The difference seconds_float -
\* seconds_full and its product with MICROSECONDS_PER_SECOND are rounded.
split_seconds_to_full_and_part(seconds_float) ==
    LET x == seconds_float
        seconds_full == BitsToInt(FloatBits(x))
        n == IntToBits(seconds_full)
        fraction == IF x.e >= 0
                    THEN RoundToDouble(SubBig(Shl(x.m, x.e), n), 0, FALSE)
                    ELSE RoundToDouble(SubBig(x.m, Shl(n, 0 - x.e)), x.e, FALSE)
        product == RoundToDouble(MulBig(fraction.m, IntToBits(MICROSECONDS_PER_SECOND)),
                                 fraction.e, FALSE)
        useconds == BitsToInt(FloatBits(product))
    IN  << seconds_full, useconds >>

\* TRUE when check_frame_id_and_format returns, FALSE when it raises.
check_frame_id_and_format(frame_id, frame_format) ==
    /\ frame_format \in {CAN_FRAMEFORMAT_STANDARD, CAN_FRAMEFORMAT_EXTENDED}
    /\ frame_id >= 0
    /\ ~(frame_format = CAN_FRAMEFORMAT_STANDARD /\ frame_id > MAX_CAN_FRAME_ID_STANDARD)
    /\ ~(frame_format = CAN_FRAMEFORMAT_EXTENDED /\ frame_id > MAX_CAN_FRAME_ID_EXTENDED)

\* get_busvalue_from_bytes shifting a big endian payload by the startbit in
\* the normal numbering, and a little endian one as the code does.
get_busvalue_from_bytes_by_normal_startbit(input_bytes, endianness, numberofbits, startbit) ==
    IF endianness = BIG_ENDIAN
    THEN [exc |-> "none",
          value |-> Shr(can_bytes_to_int(input_bytes), startbit) \cap 0..(numberofbits - 1)]
    ELSE [exc |-> "none",
          value |-> Shr(can_bytes_to_int(
                           [k \in 1..MAX_NUMBER_OF_CAN_DATA_BYTES |->
                               LET origin == startbit \div BITS_PER_BYTE
                                                 + MAX_NUMBER_OF_CAN_DATA_BYTES - k + 1
                               IN  IF origin \in DOMAIN input_bytes THEN input_bytes[origin]
                                   ELSE 0]),
                        startbit % BITS_PER_BYTE) \cap 0..(numberofbits - 1)]

\* The loop of get_busvalue_from_bytes moves the bytes of the little endian
\* field to the right end of 8 bytes, in reverse order (reshuffled).
get_busvalue_from_bytes(input_bytes, endianness, numberofbits, startbit) ==
    LET mask == 0..(numberofbits - 1)
    IN  IF endianness = BIG_ENDIAN
        THEN LET extract_shifts == calculate_backward_bitnumber(startbit)
                 dataint == can_bytes_to_int(input_bytes)
             IN  [exc |-> "none", value |-> Shr(dataint, extract_shifts) \cap mask]
        ELSE LET bytenumber_for_startbit == startbit \div BITS_PER_BYTE
                 stopbit_little == startbit + numberofbits - 1
                 bytenumber_for_stopbit_little == stopbit_little \div BITS_PER_BYTE
                 number_of_bytes_to_shuffle ==
                     bytenumber_for_stopbit_little - bytenumber_for_startbit + 1
                 number_of_steps_to_LSBit_in_byte == startbit % BITS_PER_BYTE
             IN  IF bytenumber_for_stopbit_little >= MAX_NUMBER_OF_CAN_DATA_BYTES
                 THEN [exc |-> "AssertionError", value |-> {}]
                 ELSE IF bytenumber_for_stopbit_little >= Len(input_bytes)
                 THEN [exc |-> "IndexError", value |-> {}]
                 ELSE LET reshuffled ==
                              [k \in 1..MAX_NUMBER_OF_CAN_DATA_BYTES |->
                                  LET i == MAX_NUMBER_OF_CAN_DATA_BYTES - k
                                  IN  IF i < number_of_bytes_to_shuffle
                                      THEN input_bytes[bytenumber_for_startbit + i + 1]
                                      ELSE 0]
                          temporary_value == can_bytes_to_int(reshuffled)
                      IN  [exc |-> "none",
                           value |-> Shr(temporary_value, number_of_steps_to_LSBit_in_byte)
                                         \cap mask]

\* get_shiftedvalue_from_busvalue shifting as for big endian whatever the
\* endianness.
get_shiftedvalue_as_big_endian(input_value, endianness, numberofbits, startbit) ==
    Shl(input_value, calculate_backward_bitnumber(startbit))

\* input_value is a bit set; the result is the bit set to OR into the payload.
\* The loop moves the rightmost bytes to the bytes of the little endian
\* field, in reverse order (reshuffled).
get_shiftedvalue_from_busvalue(input_value, endianness, numberofbits, startbit) ==
    LET encode_shifts == calculate_backward_bitnumber(startbit)
    IN  IF endianness = BIG_ENDIAN
        THEN Shl(input_value, encode_shifts)
        ELSE LET number_of_steps_to_LSBit_in_byte == encode_shifts % BITS_PER_BYTE
                 bytenumber_for_startbit == startbit \div BITS_PER_BYTE
                 stopbit_little == startbit + numberofbits - 1
                 bytenumber_for_stopbit_little == stopbit_little \div BITS_PER_BYTE
                 number_of_bytes_to_shuffle ==
                     bytenumber_for_stopbit_little - bytenumber_for_startbit + 1
                 partially_shifted_value == Shl(input_value, number_of_steps_to_LSBit_in_byte)
                 partially_shifted_bytes ==
                     int_to_can_bytes(MAX_NUMBER_OF_CAN_DATA_BYTES, partially_shifted_value)
                 reshuffled ==
                     [k \in 1..MAX_NUMBER_OF_CAN_DATA_BYTES |->
                         LET i == (k - 1) - bytenumber_for_startbit
                         IN  IF i >= 0 /\ i < number_of_bytes_to_shuffle
                             THEN partially_shifted_bytes[MAX_NUMBER_OF_CAN_DATA_BYTES - i]
                             ELSE 0]
             IN  can_bytes_to_int(reshuffled)

(***************************************************************************)
(* cansignal.py: a signal definition is a record                           *)
(*   [signalname, startbit, numberofbits, endianness, signaltype,          *)
(*    scalingfactor, valueoffset, defaultvalue, minvalue, maxvalue]        *)
(* scalingfactor, valueoffset, defaultvalue, minvalue and maxvalue hold    *)
(* integers below 2^31 here (scalingfactor below 2^17); minvalue and       *)
(* maxvalue are optional.  The signal types are the two integer types.     *)
(***************************************************************************)
\* CanSignalDefinition.__init__ (a defaultvalue of None is the valueoffset).
CanSignalDefinition(signalname, startbit, numberofbits, scalingfactor, valueoffset, defaultvalue, minvalue, maxvalue, endianness, signaltype) ==
    [signalname |-> signalname, startbit |-> startbit, numberofbits |-> numberofbits,
     endianness |-> endianness, signaltype |-> signaltype,
     scalingfactor |-> scalingfactor, valueoffset |-> valueoffset,
     defaultvalue |-> IF defaultvalue = None THEN valueoffset ELSE Val(defaultvalue),
     minvalue |-> minvalue, maxvalue |-> maxvalue]

\* unpacked_value * scalingfactor + valueoffset, where scalingfactor and
\* valueoffset are floats: the int is converted to a float, and the product
\* and the sum are rounded.
ScaleToPhysical(sd, unpacked_value) ==
    ToFloat(NumAdd(ToFloat(NumMul(ToFloat(unpacked_value), Num(sd.scalingfactor))),
                   Num(sd.valueoffset)))

get_maximum_possible_value(sd) ==
    LET max_unpacked_value ==
            IF sd.signaltype = CAN_SIGNALTYPE_UNSIGNED
            THEN NumOf(FALSE, 0..(sd.numberofbits - 1))
            ELSE NumOf(FALSE, 0..(sd.numberofbits - 2))
    IN  ScaleToPhysical(sd, max_unpacked_value)

get_minimum_possible_value(sd) ==
    LET min_unpacked_value ==
            IF sd.signaltype = CAN_SIGNALTYPE_UNSIGNED
            THEN Num(0)
            ELSE NumOf(TRUE, {sd.numberofbits - 1})
    IN  ScaleToPhysical(sd, min_unpacked_value)

\* get_minimum_dlc taking the byte of the startbit whatever the endianness.
get_minimum_dlc_of_startbit(sd) == sd.startbit \div BITS_PER_BYTE + 1

get_minimum_dlc(sd) ==
    LET bytenumber ==
            IF sd.endianness = BIG_ENDIAN
            THEN sd.startbit \div BITS_PER_BYTE
            ELSE (sd.startbit + sd.numberofbits - 1) \div BITS_PER_BYTE
    IN  bytenumber + 1

\* _get_overview_string marking the least and the most significant bit only.
get_overview_string_ends_only(sd) ==
    LET last == BITS_IN_FULL_DATA - 1
        startbit_backward == calculate_backward_bitnumber(sd.startbit)
        stopbit_backward == startbit_backward + sd.numberofbits - 1
        stopbit == sd.startbit + sd.numberofbits - 1
    IN  IF sd.endianness = LITTLE_ENDIAN
        THEN [pos \in 0..last |->
                IF pos = last - calculate_backward_bitnumber(sd.startbit) THEN "L"
                ELSE IF pos = last - calculate_backward_bitnumber(stopbit) THEN "M"
                ELSE " "]
        ELSE [pos \in 0..last |->
                IF pos = last - startbit_backward THEN "L"
                ELSE IF pos = last - stopbit_backward THEN "M"
                ELSE " "]

\* The 64 characters of _get_overview_string, as a function of the position
\* 0..63 in the string; " " where the signal has no bit.
get_overview_string(sd) ==
    LET last == BITS_IN_FULL_DATA - 1
        startbit_backward == calculate_backward_bitnumber(sd.startbit)
        stopbit_backward == startbit_backward + sd.numberofbits - 1
        stopbit == sd.startbit + sd.numberofbits - 1
    IN  IF sd.endianness = LITTLE_ENDIAN
        THEN [pos \in 0..last |->
                IF sd.numberofbits > 2
                   /\ \E i \in (sd.startbit + 1)..(stopbit - 1) :
                          pos = last - calculate_backward_bitnumber(i)
                THEN "X"
                ELSE IF pos = last - calculate_backward_bitnumber(sd.startbit) THEN "L"
                ELSE IF pos = last - calculate_backward_bitnumber(stopbit) THEN "M"
                ELSE " "]
        ELSE [pos \in 0..last |->
                IF sd.numberofbits > 2
                   /\ \E b \in (startbit_backward + 1)..(stopbit_backward - 1) :
                          pos = last - b
                THEN "X"
                ELSE IF pos = last - startbit_backward THEN "L"
                ELSE IF pos = last - stopbit_backward THEN "M"
                ELSE " "]

(***************************************************************************)
(* canframe.py: a CanFrame is a record [frame_id, frame_format, frame_data]*)
(***************************************************************************)
CanFrame(frame_id, frame_data, frame_format) ==
    [frame_id |-> frame_id, frame_format |-> frame_format, frame_data |-> frame_data]

\* The 32-bit word frame_id | CAN_MASK_EXTENDED_FRAME_BIT as the pair of the
\* 29-bit id and bit 31.
CombinedId(frame_id, frame_format) ==
    [id |-> frame_id, eff |-> (frame_format = CAN_FRAMEFORMAT_EXTENDED)]

\* get_rawframe with the dlc of the padded data.
get_rawframe_padded_dlc(frame) ==
    [can_id |-> CombinedId(frame.frame_id, frame.frame_format),
     dlc |-> Len(LjustNull(frame.frame_data)),
     data |-> LjustNull(frame.frame_data)]

\* struct.pack("=IB3x8s", first_part, dlc, framedata8bytes)
get_rawframe(frame) ==
    [can_id |-> CombinedId(frame.frame_id, frame.frame_format),
     dlc |-> Len(frame.frame_data),
     data |-> LjustNull(frame.frame_data)]

\* Limit to minvalue and maxvalue: max(x, y) and min(x, y) on numbers.
LimitToMinMax(sd, physical_value) ==
    LET Max2(x, y) == IF NumLess(x, y) THEN y ELSE x
        Min2(x, y) == IF NumLess(y, x) THEN y ELSE x
        lower == IF sd.minvalue # None THEN Max2(Num(Val(sd.minvalue)), physical_value)
                 ELSE physical_value
    IN  IF sd.maxvalue # None THEN Min2(Num(Val(sd.maxvalue)), lower) ELSE lower

\* CanFrame.get_signalvalue for the integer signal types; the value is a
\* number (a float of the code).
get_signalvalue(frame, sd) ==
    LET bus == get_busvalue_from_bytes(frame.frame_data, sd.endianness,
                                       sd.numberofbits, sd.startbit)
        unpacked == IF sd.signaltype = CAN_SIGNALTYPE_UNSIGNED
                    THEN [exc |-> "none", value |-> NumOf(FALSE, bus.value)]
                    ELSE from_twos_complement(NumOf(FALSE, bus.value), sd.numberofbits)
    IN  IF bus.exc # "none" THEN [exc |-> bus.exc, value |-> Num(0)]
        ELSE IF unpacked.exc # "none" THEN [exc |-> unpacked.exc, value |-> Num(0)]
        ELSE [exc |-> "none",
              value |-> LimitToMinMax(sd, ScaleToPhysical(sd, unpacked.value))]

\* CanFrame.set_signalvalue for the integer signal types: the exception
\* raised, and the frame_data after the call (unchanged when it raises).
\* The physical value is a number (an int of the caller), or None.
\* IntOfQuotient(a, d) is int(a / d) for a float a with an integer value and
\* a float d with a positive integer value below 2^17: the correctly rounded
\* quotient, truncated towards zero.
set_signalvalue(frame, sd, physical_value_or_none) ==
    LET IntOfQuotient(a, d) ==
            LET whole == IF d = 1 THEN [q |-> a.mag, r |-> 0] ELSE DivSmall(a.mag, d)
            IN  IF whole.r = 0
                THEN ToFloat(NumOf(a.neg, whole.q))
                ELSE LET q == DivSmall(Shl(a.mag, 70), d)
                     IN  NumOf(a.neg, FloatBits(RoundToDouble(q.q, 0 - 70, q.r # 0)))
        physical_value == IF physical_value_or_none = None THEN Num(sd.defaultvalue)
                          ELSE Val(physical_value_or_none)
        limited == LimitToMinMax(sd, physical_value)
        raw_mask == 0..(sd.numberofbits - 1)
        mask == get_shiftedvalue_from_busvalue(raw_mask, sd.endianness,
                                               sd.numberofbits, sd.startbit)
        dataint == can_bytes_to_int(frame.frame_data)
        dlc == Len(frame.frame_data)
        Encode(scaled_value) ==
            IF sd.signaltype = CAN_SIGNALTYPE_UNSIGNED
            THEN [exc |-> "none", value |-> scaled_value]
            ELSE twos_complement(scaled_value, sd.numberofbits)
        Write(encoded) ==
            LET bus_value == encoded.value
                bitvalues == get_shiftedvalue_from_busvalue(bus_value.mag, sd.endianness,
                                                            sd.numberofbits, sd.startbit)
            IN  IF encoded.exc # "none"
                THEN [exc |-> encoded.exc, frame_data |-> frame.frame_data]
                ELSE IF NumLess(NumOf(FALSE, 0..(sd.numberofbits - 1)), bus_value)
                        \/ bus_value.neg
                THEN [exc |-> "AssertionError", frame_data |-> frame.frame_data]
                ELSE [exc |-> "none",
                      frame_data |-> int_to_can_bytes(dlc, (dataint \ mask) \cup bitvalues)]
    IN  IF get_minimum_dlc(sd) > Len(frame.frame_data)
        THEN [exc |-> "CanException", frame_data |-> frame.frame_data]
        ELSE IF NumLess(physical_value, get_minimum_possible_value(sd))
                \/ NumLess(get_maximum_possible_value(sd), physical_value)
        THEN [exc |-> "CanException", frame_data |-> frame.frame_data]
        ELSE Write(Encode(IntOfQuotient(
                 ToFloat(NumSub(ToFloat(limited), Num(sd.valueoffset))),
                 sd.scalingfactor)))

(***************************************************************************)
(* canframe_definition.py: a frame definition is a record                  *)
(*   [frame_id, frame_format, dlc, cycletime, throttle_time, producer_ids, *)
(*    receive_on_change_only, signaldefinitions]                           *)
(* cycletime and throttle_time are optional.                               *)
(***************************************************************************)
CanFrameDefinition(frame_id, dlc, cycletime, frame_format) ==
    [frame_id |-> frame_id, frame_format |-> frame_format, dlc |-> dlc,
     cycletime |-> cycletime, throttle_time |-> None, producer_ids |-> {},
     receive_on_change_only |-> FALSE, signaldefinitions |-> << >>]

get_signal_mask(framedef) ==
    LET output_int ==
            UNION { { BITS_IN_FULL_DATA - 1 - pos :
                        pos \in { q \in 0..(BITS_IN_FULL_DATA - 1) :
                                    get_overview_string(framedef.signaldefinitions[n])[q] # " " } }
                    : n \in 1..Len(framedef.signaldefinitions) }
    IN  int_to_can_bytes(MAX_NUMBER_OF_CAN_DATA_BYTES, output_int)

\* is_outbound demanding that every producer is an ego node.
is_outbound_all_producers(framedef, ego_node_ids) ==
    IF framedef.producer_ids = {} \/ ego_node_ids = {}
    THEN FALSE
    ELSE framedef.producer_ids \subseteq ego_node_ids

is_outbound(framedef, ego_node_ids) ==
    IF framedef.producer_ids = {} \/ ego_node_ids = {}
    THEN FALSE
    ELSE (ego_node_ids \cap framedef.producer_ids) # {}

(***************************************************************************)
(* caninterface_bcm.py and caninterface_raw.py.  What an interface hands   *)
(* to its socket is a record: a BCM message [proto, header, frames], a raw *)
(* frame [proto, rawframe] or a filter list [proto, filters].              *)
(***************************************************************************)
\* The timeval of an interval in milliseconds: interval /
\* MILLISECONDS_PER_SECOND (Python 3 true division: the correctly rounded
\* quotient; the quotient of interval * 2^70 by 1000 has more than 53 bits
\* for every interval >= 1), split.
IntervalTimeval(interval) ==
    LET d == DivSmall(Shl(IntToBits(interval), 70), MILLISECONDS_PER_SECOND)
    IN  split_seconds_to_full_and_part(RoundToDouble(d.q, 0 - 70, d.r # 0))

\* The timevals of the intervals that the frame definitions of the model
\* use, computed once.
ModelTimevals == [interval \in { 0, 20, 1001 } |-> IntervalTimeval(interval)]
ZeroTimeval == split_seconds_to_full_and_part([m |-> {}, e |-> 0])

_build_bcm_header(opcode, flags, interval, frame_id, frame_format, number_of_bcm_frames) ==
    [opcode |-> opcode,
         flags |-> flags,
         ival1_count |-> 0,
         ival1 |-> ZeroTimeval,
         ival2 |-> IF interval \in DOMAIN ModelTimevals
                   THEN ModelTimevals[interval]
                   ELSE IntervalTimeval(interval),
         can_id |-> CombinedId(frame_id, frame_format),
         nframes |-> number_of_bcm_frames]

BcmMessage(header, frames) == [proto |-> "bcm", header |-> header, frames |-> frames]

bcm_send_frame(input_frame) ==
    BcmMessage(_build_bcm_header(CAN_BCM_TX_SEND, 0, 0, input_frame.frame_id,
                                 input_frame.frame_format, 1),
               << get_rawframe(input_frame) >>)

\* interval is optional.  The exception raised, and the message sent.
bcm_setup_periodic_send(input_frame, interval, restart_timer) ==
    LET interval_ms == IF interval = None THEN 0 ELSE Val(interval)
        flags1 == IF interval = None THEN 0 ELSE BitOrInt(0, BCM_FLAG_SETTIMER)
        flags == IF restart_timer THEN BitOrInt(flags1, BCM_FLAG_STARTTIMER) ELSE flags1
    IN  IF interval # None /\ interval_ms < 0
        THEN [exc |-> "CanException", msgs |-> << >>]
        ELSE [exc |-> "none",
              msgs |-> << BcmMessage(_build_bcm_header(CAN_BCM_TX_SETUP, flags, interval_ms,
                                         input_frame.frame_id, input_frame.frame_format, 1),
                                     << get_rawframe(input_frame) >>) >>]

bcm_stop_periodic_send(frame_id, frame_format) ==
    IF ~check_frame_id_and_format(frame_id, frame_format)
    THEN [exc |-> "CanException", msgs |-> << >>]
    ELSE [exc |-> "none",
          msgs |-> << BcmMessage(_build_bcm_header(CAN_BCM_TX_DELETE, 0, 0,
                                                   frame_id, frame_format, 0), << >>) >>]

\* min_interval and data_mask are optional.
bcm_setup_reception(frame_id, frame_format, min_interval, data_mask) ==
    LET interval_ms == IF min_interval = None THEN 0 ELSE Val(min_interval)
        flags1 == IF min_interval # None /\ interval_ms > 0
                  THEN BitOrInt(0, BCM_FLAG_SETTIMER) ELSE 0
        flags == IF data_mask = None
                 THEN BitOrInt(flags1, BCM_FLAG_RX_FILTER_ID)
                 ELSE BitOrInt(flags1, BCM_FLAG_RX_CHECK_DLC)
        masking_frame ==
            IF data_mask = None
            THEN CanFrame(frame_id, NullBytes(MAX_NUMBER_OF_CAN_DATA_BYTES), frame_format)
            ELSE CanFrame(frame_id, Val(data_mask), frame_format)
    IN  IF ~check_frame_id_and_format(frame_id, frame_format)
        THEN [exc |-> "CanException", msgs |-> << >>]
        ELSE IF min_interval # None /\ interval_ms < 0
        THEN [exc |-> "CanException", msgs |-> << >>]
        ELSE IF data_mask # None /\ Len(Val(data_mask)) # MAX_NUMBER_OF_CAN_DATA_BYTES
        THEN [exc |-> "CanException", msgs |-> << >>]
        ELSE [exc |-> "none",
              msgs |-> << BcmMessage(_build_bcm_header(CAN_BCM_RX_SETUP, flags, interval_ms,
                                                       frame_id, frame_format, 1),
                                     << get_rawframe(masking_frame) >>) >>]

bcm_stop_reception(frame_id, frame_format) ==
    IF ~check_frame_id_and_format(frame_id, frame_format)
    THEN [exc |-> "CanException", msgs |-> << >>]
    ELSE [exc |-> "none",
          msgs |-> << BcmMessage(_build_bcm_header(CAN_BCM_RX_DELETE, 0, 0,
                                                   frame_id, frame_format, 0), << >>) >>]

\* _send_via_socket: errno is the answer of the kernel to the send, 0 when
\* the send succeeds; the exception that leaves the method.
EBADF == 9
ENETDOWN == 100
EINVAL == 22

_send_via_socket(errno) ==
    IF errno = 0 THEN "none"
    ELSE IF errno = EBADF THEN "CanException"
    ELSE IF errno = ENETDOWN THEN "CanException"
    ELSE IF errno = EINVAL THEN "CanNotFoundByKernelException"
    ELSE "OSError"

raw_send_frame(input_frame) == [proto |-> "raw", rawframe |-> get_rawframe(input_frame)]

\* framenumbers is a sequence of frame ids; the socket calls made.
raw_set_receive_filters(framenumbers) ==
    IF Len(framenumbers) = 0
    THEN << >>
    ELSE IF Len(framenumbers) > MAX_NUMBER_OF_RAW_RECEIVE_FILTERS
    THEN << >>
    ELSE << [proto |-> "setsockopt",
             filters |-> [n \in 1..Len(framenumbers) |->
                             << framenumbers[n], CAN_MASK_RECEIVE_ONLY_ONE_FRAMENUMBER >>]] >>

(***************************************************************************)
(* The constructors of the interfaces.  A timeout is None or a record      *)
(* [mantissa, exponent, str]: the number mantissa * 10^exponent, or the    *)
(* string str when str is not empty.  The result is the exception raised,  *)
(* the calls made on the socket, and whether the socket is open.           *)
(***************************************************************************)
\* socket.settimeout(timeout): a timeout must be a number, fit the 64-bit
\* nanoseconds of the platform (below 9.3e9 s), and not be negative.
settimeout(timeout) ==
    IF timeout = None THEN "none"
    ELSE IF Val(timeout).str # "" THEN "TypeError"
    ELSE IF Val(timeout).mantissa # 0 /\ Val(timeout).exponent >= 10 THEN "OverflowError"
    ELSE IF Val(timeout).mantissa < 0 THEN "ValueError"
    ELSE "none"

\* SocketCanRawInterface.__init__; bind and connect raise OSError for every
\* interfacename but vcan0, the CAN interface that exists.
RawInterfaceInit(interfacename, timeout) ==
    IF settimeout(timeout) \in { "ValueError", "TypeError" }
    THEN [exc |-> "CanException", calls |-> << "socket", "settimeout", "close" >>, open |-> FALSE]
    ELSE IF settimeout(timeout) # "none"
    THEN [exc |-> settimeout(timeout), calls |-> << "socket", "settimeout" >>, open |-> TRUE]
    ELSE IF interfacename # "vcan0"
    THEN [exc |-> "CanException", calls |-> << "socket", "settimeout", "bind", "close" >>,
          open |-> FALSE]
    ELSE [exc |-> "none", calls |-> << "socket", "settimeout", "bind" >>, open |-> TRUE]

\* SocketCanBcmInterface.__init__
BcmInterfaceInit(interfacename, timeout) ==
    IF settimeout(timeout) \in { "ValueError", "TypeError" }
    THEN [exc |-> "CanException", calls |-> << "socket", "settimeout", "close" >>, open |-> FALSE]
    ELSE IF settimeout(timeout) # "none"
    THEN [exc |-> settimeout(timeout), calls |-> << "socket", "settimeout" >>, open |-> TRUE]
    ELSE IF interfacename # "vcan0"
    THEN [exc |-> "CanException", calls |-> << "socket", "settimeout", "connect", "close" >>,
          open |-> FALSE]
    ELSE [exc |-> "none", calls |-> << "socket", "settimeout", "connect" >>, open |-> TRUE]

(***************************************************************************)
(* The configurations of the model: five frame definitions, and the sets   *)
(* of node ids the program may enact.                                      *)
(***************************************************************************)
\* Configuration.framedefinitions in insertion order (add_framedefinition):
\* 1 a periodic frame with two signals on disjoint bits; 2 a frame without
\* cycle time, in the extended format; 3 a periodic frame with two signals
\* that share bit 2; 4 a frame with cycle time 0; 5 a periodic frame
\* without signals.
FrameDefinitions ==
    LET SigA == CanSignalDefinition("a", 56, 1, 1, 0, None, None, None, LITTLE_ENDIAN,
                                    CAN_SIGNALTYPE_UNSIGNED)
        SigB == CanSignalDefinition("b", 8, 12, 1, 0, Some(1), None, None, BIG_ENDIAN,
                                    CAN_SIGNALTYPE_UNSIGNED)
        SigC == CanSignalDefinition("c", 4, 8, 1, 0, None, None, None, LITTLE_ENDIAN,
                                    CAN_SIGNALTYPE_SIGNED)
        SigD == CanSignalDefinition("d", 0, 3, 1, 0, None, None, Some(2), LITTLE_ENDIAN,
                                    CAN_SIGNALTYPE_UNSIGNED)
        SigE == CanSignalDefinition("e", 2, 2, 1, 0, None, None, None, LITTLE_ENDIAN,
                                    CAN_SIGNALTYPE_UNSIGNED)
        SigF == CanSignalDefinition("f", 24, 16, 1, 0, None, None, None, LITTLE_ENDIAN,
                                    CAN_SIGNALTYPE_UNSIGNED)
    IN  << [CanFrameDefinition(1, 8, Some(20), CAN_FRAMEFORMAT_STANDARD)
               EXCEPT !.producer_ids = {"A"}, !.signaldefinitions = << SigA, SigB >>],
           [CanFrameDefinition(2, 2, None, CAN_FRAMEFORMAT_EXTENDED)
               EXCEPT !.producer_ids = {"E"}, !.signaldefinitions = << SigC >>],
           [CanFrameDefinition(3, 1, Some(1001), CAN_FRAMEFORMAT_STANDARD)
               EXCEPT !.producer_ids = {"B"}, !.signaldefinitions = << SigD, SigE >>],
           [CanFrameDefinition(4, 8, Some(0), CAN_FRAMEFORMAT_STANDARD)
               EXCEPT !.producer_ids = {"C"}, !.signaldefinitions = << SigF >>],
           [CanFrameDefinition(5, 0, Some(20), CAN_FRAMEFORMAT_STANDARD)
               EXCEPT !.producer_ids = {"B", "D"}] >>

(***************************************************************************)
(* canbus.py: the state of a CanBus object.                                *)
(*   framedefinitions  Configuration.framedefinitions: the frame           *)
(*                     definitions in insertion order, keyed by frame_id   *)
(*   ego_node_ids      Configuration.ego_node_ids                          *)
(*   use_bcm           CanBus._use_bcm                                     *)
(*   output_signaldefinition_storage   signal name -> signal definition    *)
(*   output_frame_storage              signal name -> frame object; an     *)
(*                     object is named by the frameID it was created for   *)
(*   frames            the CanFrame objects of output_frame_storage        *)
(*   output_framedefinition_storage    the keys (frame ids) of the dict,   *)
(*                     in insertion order; the values are the objects of   *)
(*                     framedefinitions                                    *)
(*   input_framedefinition_storage     the list, as frame ids              *)
(*   transmissionstatus                frame id -> status                  *)
(*   sent              what the last operation handed to the socket        *)
(*   call              the last operation: its name, its arguments, the    *)
(*                     ids for which the kernel answered EINVAL, the       *)
(*                     exception it raised, and the status map before it   *)
(*   caninterface      the socket of the interface object last created:    *)
(*                     the calls made on it and whether it is open         *)
(*   threads           the send_signals calls that threads are running     *)
(*   given_values      signal name -> the value most recently given for    *)
(*                     the signal to a send_signals call that returned;    *)
(*                     None stands for the default value                   *)
(* and the objects that are used without a CanBus object:                  *)
(*   myframe           a CanFrame object                                   *)
(*   myframedef        a CanFrameDefinition object                         *)
(*   mysignal          a CanSignalDefinition object                        *)
(*   outcome           the last operation on one of these objects: its     *)
(*                     name and arguments, the frame data before it, the   *)
(*                     exception it raised and the value it returned       *)
(***************************************************************************)
VARIABLES framedefinitions, ego_node_ids, use_bcm,
          output_signaldefinition_storage, output_frame_storage, frames,
          output_framedefinition_storage, input_framedefinition_storage,
          transmissionstatus, sent, call, caninterface, threads, given_values,
          myframe, myframedef, mysignal, outcome

vars == << framedefinitions, ego_node_ids, use_bcm,
           output_signaldefinition_storage, output_frame_storage, frames,
           output_framedefinition_storage, input_framedefinition_storage,
           transmissionstatus, sent, call, caninterface, threads, given_values,
           myframe, myframedef, mysignal, outcome >>

canbus_vars == << framedefinitions, ego_node_ids, use_bcm,
                  output_signaldefinition_storage, output_frame_storage, frames,
                  output_framedefinition_storage, input_framedefinition_storage,
                  transmissionstatus, sent, call, caninterface, threads,
                  given_values >>

storage_vars == << output_signaldefinition_storage, output_frame_storage,
                   output_framedefinition_storage, input_framedefinition_storage,
                   caninterface, threads, given_values >>

\* framedefinitions[frame_id]
FrameDefOf(defs, frame_id) ==
    defs[CHOOSE i \in 1..Len(defs) : defs[i].frame_id = frame_id]

FrameIds(defs) == { defs[i].frame_id : i \in 1..Len(defs) }

\* --- CanBus.__init__ -----------------------------------------------------
\* The loop "for sigdef in framedef.signaldefinitions" on the new frame fr,
\* after n signals: the exception raised and the frame.
RECURSIVE SetDefaults(_, _, _)
SetDefaults(fr, sigdefs, n) ==
    IF n = 0 THEN [exc |-> "none", frame |-> fr]
    ELSE LET prev == SetDefaults(fr, sigdefs, n - 1)
             Set(r) ==
                 [exc |-> r.exc, frame |-> [prev.frame EXCEPT !.frame_data = r.frame_data]]
         IN  IF prev.exc # "none" THEN prev
             ELSE Set(set_signalvalue(prev.frame, sigdefs[n], None))

\* InitialStatus without the case of the cycle time 0.
InitialStatusNoneOnly(framedef) ==
    IF framedef.cycletime = None
    THEN STATUS_NONPERIODIC
    ELSE STATUS_PERIODIC_NOT_YET_STARTED

InitialStatus(framedef) ==
    IF framedef.cycletime \in {Some(0), None}
    THEN STATUS_NONPERIODIC
    ELSE STATUS_PERIODIC_NOT_YET_STARTED

\* The positions <<i, n>> of the signal definitions of the outbound frames.
OutboundSignalPositions(defs, ego) ==
    UNION { { << i, n >> : n \in 1..Len(defs[i].signaldefinitions) } :
            i \in { j \in 1..Len(defs) : is_outbound(defs[j], ego) } }

\* The CanBus object that __init__ builds once the interface is open, or the
\* exception that the loop over the frame definitions raises.
CanBusObject(config_framedefinitions, config_ego_node_ids, bcm) ==
    LET defs == config_framedefinitions
        ego == config_ego_node_ids
        outbound(fd) == is_outbound(fd, ego)
        inbound(fd) == ~is_outbound(fd, ego)
        ids(seq) == [i \in 1..Len(seq) |-> seq[i].frame_id]
        outdefs == SelectSeq(defs, outbound)
        outids == { outdefs[i].frame_id : i \in 1..Len(outdefs) }
        InitialFrame(framedef) ==
            SetDefaults(CanFrame(framedef.frame_id, NullBytes(framedef.dlc),
                                 framedef.frame_format),
                        framedef.signaldefinitions, Len(framedef.signaldefinitions))
        nameat(p) == defs[p[1]].signaldefinitions[p[2]].signalname
        OutboundSignalNames(positions) == { nameat(p) : p \in positions }
        \* The position that the loops visit last for a signal name.
        LastPosition(signalname) ==
            CHOOSE p \in OutboundSignalPositions(defs, ego) :
                /\ nameat(p) = signalname
                /\ \A q \in OutboundSignalPositions(defs, ego) :
                      nameat(q) = signalname
                          => (q[1] < p[1] \/ (q[1] = p[1] /\ q[2] <= p[2]))
        Built(initial) ==
            [exc |-> IF \A id \in outids : initial[id].exc = "none" THEN "none"
                     ELSE "CanException",
             framedefinitions |-> defs,
             ego_node_ids |-> ego,
             use_bcm |-> bcm,
             output_framedefinition_storage |-> ids(outdefs),
             input_framedefinition_storage |-> ids(SelectSeq(defs, inbound)),
             transmissionstatus |-> [id \in outids |-> InitialStatus(FrameDefOf(defs, id))],
             frames |-> [id \in outids |-> initial[id].frame],
             output_signaldefinition_storage |->
                 [name \in OutboundSignalNames(OutboundSignalPositions(defs, ego)) |->
                     LET p == LastPosition(name)
                     IN  defs[p[1]].signaldefinitions[p[2]]],
             output_frame_storage |->
                 [name \in OutboundSignalNames(OutboundSignalPositions(defs, ego)) |->
                     defs[LastPosition(name)[1]].frame_id]]
    IN  Built([id \in outids |-> InitialFrame(FrameDefOf(defs, id))])

\* The state after CanBus(config, interfacename, timeout, use_bcm) returned.
CanBusInit(config_framedefinitions, config_ego_node_ids, bcm) ==
    \E this \in { CanBusObject(config_framedefinitions, config_ego_node_ids, bcm) } :
        /\ this.exc = "none"
        /\ framedefinitions = this.framedefinitions
        /\ ego_node_ids = this.ego_node_ids
        /\ use_bcm = this.use_bcm
        /\ output_framedefinition_storage = this.output_framedefinition_storage
        /\ input_framedefinition_storage = this.input_framedefinition_storage
        /\ transmissionstatus = this.transmissionstatus
        /\ frames = this.frames
        /\ output_signaldefinition_storage = this.output_signaldefinition_storage
        /\ output_frame_storage = this.output_frame_storage
        /\ sent = << >>
        /\ call = [op |-> "__init__", args |-> << >>, rejected |-> << >>,
                   raised |-> "none", status_before |-> << >>]
        /\ caninterface = [calls |-> IF bcm THEN BcmInterfaceInit("vcan0", None).calls
                                     ELSE RawInterfaceInit("vcan0", None).calls,
                           bcm |-> bcm, open |-> TRUE]
        /\ threads = << >>
        /\ given_values = [name \in DOMAIN this.output_signaldefinition_storage |-> None]

Init ==
    /\ \E ego \in { {}, {"A"}, {"B"}, {"C", "E"} }, bcm \in BOOLEAN : CanBusInit(FrameDefinitions, ego, bcm)
    /\ myframe = None /\ myframedef = None /\ mysignal = None /\ outcome = None

\* --- CanBus.send_signals --------------------------------------------------
\* signals_to_send is the dict in its order of iteration: a sequence of
\* pairs <<signalname, value>> with distinct names; a value is optional.
\* The first loop after n items: the exception raised, the frame objects,
\* and frames_to_send.
RECURSIVE UpdateSignals(_, _, _, _, _)
UpdateSignals(signals_to_send, n, sigdefs, framestorage, frs) ==
    IF n = 0 THEN [exc |-> "none", frames |-> frs, frames_to_send |-> {}]
    ELSE LET prev == UpdateSignals(signals_to_send, n - 1, sigdefs, framestorage, frs)
             signalname == signals_to_send[n][1]
             value == signals_to_send[n][2]
         IN  IF prev.exc # "none" THEN prev
             ELSE IF signalname \notin DOMAIN sigdefs
             THEN [prev EXCEPT !.exc = "CanException"]
             ELSE LET key == framestorage[signalname]
                      Update(r) ==
                          IF r.exc # "none"
                          THEN [prev EXCEPT !.exc = r.exc]
                          ELSE [exc |-> "none",
                                frames |-> [prev.frames EXCEPT
                                               ![key].frame_data = r.frame_data],
                                frames_to_send |-> prev.frames_to_send \cup {key}]
                  IN  Update(set_signalvalue(prev.frames[key], sigdefs[signalname], value))

\* SendViaBcm setting the timer again for a frame that is periodic already.
SendViaBcmRestarting(frame, defs, status_map) ==
    LET status == status_map[frame.frame_id]
        cycletime == FrameDefOf(defs, frame.frame_id).cycletime
    IN  [sent |-> IF status = STATUS_NONPERIODIC
                  THEN << bcm_send_frame(frame) >>
                  ELSE bcm_setup_periodic_send(frame, cycletime, TRUE).msgs,
         status |-> IF status = STATUS_PERIODIC_NOT_YET_STARTED
                    THEN [status_map EXCEPT ![frame.frame_id] = STATUS_PERIODIC]
                    ELSE status_map]

\* The body of "for frame in frames_to_send" when using the BCM: the
\* messages sent for one frame, and the status map after it.
SendViaBcm(frame, defs, status_map) ==
    LET status == status_map[frame.frame_id]
        cycletime == FrameDefOf(defs, frame.frame_id).cycletime
        first == IF status = STATUS_PERIODIC_NOT_YET_STARTED
                 THEN bcm_setup_periodic_send(frame, cycletime, TRUE).msgs
                 ELSE << >>
        second == IF status = STATUS_PERIODIC
                  THEN bcm_setup_periodic_send(frame, None, FALSE).msgs
                  ELSE << bcm_send_frame(frame) >>
    IN  [sent |-> first \o second,
         status |-> IF status = STATUS_PERIODIC_NOT_YET_STARTED
                    THEN [status_map EXCEPT ![frame.frame_id] = STATUS_PERIODIC]
                    ELSE status_map]

\* The second loop over the frames in the order the set yields them, after
\* n frames.
RECURSIVE TransmitFrames(_, _, _, _, _, _)
TransmitFrames(order, n, frs, defs, status_map, bcm) ==
    IF n = 0 THEN [sent |-> << >>, status |-> status_map]
    ELSE LET prev == TransmitFrames(order, n - 1, frs, defs, status_map, bcm)
             frame == frs[order[n]]
             Transmit(this) == [sent |-> prev.sent \o this.sent, status |-> this.status]
         IN  IF bcm
             THEN Transmit(SendViaBcm(frame, defs, prev.status))
             ELSE [sent |-> Append(prev.sent, raw_send_frame(frame)), status |-> prev.status]

\* given_values after a call with signals_to_send: a call that returned has
\* given its values, a call that raised has given none.
Given(signals_to_send, raised) ==
    IF raised # "none" THEN given_values
    ELSE [name \in DOMAIN given_values |->
            IF \E i \in 1..Len(signals_to_send) : signals_to_send[i][1] = name
            THEN signals_to_send[CHOOSE i \in 1..Len(signals_to_send) :
                                    signals_to_send[i][1] = name][2]
            ELSE given_values[name]]

\* The orders in which a set may be iterated.
Orders(S) ==
    { o \in [1..Cardinality(S) -> S] : \A i, j \in 1..Cardinality(S) : o[i] = o[j] => i = j }

\* SendSignalsAs handing over the frames as they are before the updates.
SendSignalsBeforeUpdates(op, signals_to_send) ==
    \E upd \in { UpdateSignals(signals_to_send, Len(signals_to_send),
                               output_signaldefinition_storage, output_frame_storage, frames) } :
        /\ frames' = upd.frames
        /\ IF upd.exc # "none"
           THEN /\ sent' = << >>
                /\ call' = [op |-> op, args |-> signals_to_send, rejected |-> << >>,
                            raised |-> upd.exc, status_before |-> transmissionstatus]
                /\ UNCHANGED transmissionstatus
           ELSE \E order \in Orders(upd.frames_to_send) :
                  \E tx \in { TransmitFrames(order, Len(order), frames, framedefinitions,
                                             transmissionstatus, use_bcm) } :
                      /\ sent' = tx.sent
                      /\ transmissionstatus' = tx.status
                      /\ call' = [op |-> op, args |-> signals_to_send, rejected |-> << >>,
                                  raised |-> "none", status_before |-> transmissionstatus]
        /\ given_values' = Given(signals_to_send, upd.exc)
        /\ UNCHANGED << myframe, myframedef, mysignal, outcome, framedefinitions, ego_node_ids, use_bcm, output_signaldefinition_storage,
                        output_frame_storage, output_framedefinition_storage,
                        input_framedefinition_storage, caninterface, threads >>

\* The effect of send_signals(signals_to_send), recorded as operation op.
SendSignalsAs(op, signals_to_send) ==
    \E upd \in { UpdateSignals(signals_to_send, Len(signals_to_send),
                               output_signaldefinition_storage, output_frame_storage, frames) } :
        /\ frames' = upd.frames
        /\ IF upd.exc # "none"
           THEN /\ sent' = << >>
                /\ call' = [op |-> op, args |-> signals_to_send, rejected |-> << >>,
                            raised |-> upd.exc, status_before |-> transmissionstatus]
                /\ UNCHANGED transmissionstatus
           ELSE \E order \in Orders(upd.frames_to_send) :
                  \E tx \in { TransmitFrames(order, Len(order), upd.frames, framedefinitions,
                                             transmissionstatus, use_bcm) } :
                      /\ sent' = tx.sent
                      /\ transmissionstatus' = tx.status
                      /\ call' = [op |-> op, args |-> signals_to_send, rejected |-> << >>,
                                  raised |-> "none", status_before |-> transmissionstatus]
        /\ given_values' = Given(signals_to_send, upd.exc)
        /\ UNCHANGED << myframe, myframedef, mysignal, outcome, framedefinitions, ego_node_ids, use_bcm, output_signaldefinition_storage,
                        output_frame_storage, output_framedefinition_storage,
                        input_framedefinition_storage, caninterface, threads >>

\* send_signals handing the frames updated so far to the interface also when
\* an update has failed.
send_signals_sending_updated(signals_to_send) ==
    \E upd \in { UpdateSignals(signals_to_send, Len(signals_to_send),
                               output_signaldefinition_storage, output_frame_storage, frames) } :
        /\ frames' = upd.frames
        /\ \E order \in Orders(upd.frames_to_send) :
             \E tx \in { TransmitFrames(order, Len(order), upd.frames, framedefinitions,
                                        transmissionstatus, use_bcm) } :
                 /\ sent' = tx.sent
                 /\ transmissionstatus' = tx.status
                 /\ call' = [op |-> "send_signals", args |-> signals_to_send,
                             rejected |-> << >>, raised |-> upd.exc,
                             status_before |-> transmissionstatus]
        /\ given_values' = Given(signals_to_send, upd.exc)
        /\ UNCHANGED << myframe, myframedef, mysignal, outcome, framedefinitions, ego_node_ids, use_bcm, output_signaldefinition_storage,
                        output_frame_storage, output_framedefinition_storage,
                        input_framedefinition_storage, caninterface, threads >>

send_signals(signals_to_send) == SendSignalsAs("send_signals", signals_to_send)

\* send_signals(*args) when args[0] is not a dict, and send_signals() with
\* neither args nor kwargs: CanException before anything is touched.  args
\* is the tuple of positional arguments, each one the name of its type.
send_signals_without_dict(args) ==
    /\ IF Len(args) = 0 THEN TRUE ELSE args[1] # "dict"
    /\ sent' = << >>
    /\ call' = [op |-> "send_signals", args |-> << >>, rejected |-> << >>,
                raised |-> "CanException", status_before |-> transmissionstatus]
    /\ UNCHANGED << myframe, myframedef, mysignal, outcome, framedefinitions, ego_node_ids, use_bcm, storage_vars, frames, transmissionstatus >>

\* --- CanBus.start_sending_all_signals -------------------------------------
\* keys are the keys of _output_signaldefinition_storage in their order of
\* iteration: a dict keeps a key where it was first inserted.
start_sending_all_signals ==
    IF ~use_bcm
    THEN /\ sent' = << >>
         /\ call' = [op |-> "start_sending_all_signals", args |-> << >>, rejected |-> << >>,
                     raised |-> "none", status_before |-> transmissionstatus]
         /\ UNCHANGED << myframe, myframedef, mysignal, outcome, framedefinitions, ego_node_ids, use_bcm, storage_vars, frames, transmissionstatus >>
    ELSE LET defs == framedefinitions
             all == OutboundSignalPositions(defs, ego_node_ids)
             LexLeq(p, q) == p[1] < q[1] \/ (p[1] = q[1] /\ p[2] <= q[2])
             nameat(p) == defs[p[1]].signaldefinitions[p[2]].signalname
             firsts == { p \in all : \A q \in all : nameat(q) = nameat(p) => LexLeq(p, q) }
             rank(p) == Cardinality({ q \in firsts : LexLeq(q, p) })
             keys == [k \in 1..Cardinality(firsts) |->
                         nameat(CHOOSE p \in firsts : rank(p) = k)]
             signals_to_send == [k \in 1..Len(keys) |-> << keys[k], None >>]
         IN  SendSignalsAs("start_sending_all_signals", signals_to_send)

\* --- CanBus.stop_sending, stop_reception, stop ----------------------------
\* The clause "except exceptions.CanNotFoundByKernelException": the
\* exception that leaves the try statement.
\* A try statement without the except clause.
ExceptNothing(exc) == exc

ExceptNotFoundByKernel(exc) ==
    IF exc = "CanNotFoundByKernelException" THEN "none" ELSE exc

\* The loops of stop_sending (tx) and stop_reception (~tx) over the frame
\* ids, after n ids; rejected maps the ids whose delete the kernel rejects
\* to the errno it answers.  In one pass the interface builds the message
\* (request is what it returns), the socket answers, the handler filters the
\* exception.
RECURSIVE StopLoop(_, _, _, _, _)
StopLoop(ids, n, defs, rejected, tx) ==
    IF n = 0 THEN [exc |-> "none", sent |-> << >>]
    ELSE LET prev == StopLoop(ids, n - 1, defs, rejected, tx)
             framedef == FrameDefOf(defs, ids[n])
             errno == IF ids[n] \in DOMAIN rejected THEN rejected[ids[n]] ELSE 0
             StopOne(request) ==
                 IF request.exc # "none"
                 THEN [exc |-> ExceptNotFoundByKernel(request.exc), sent |-> prev.sent]
                 ELSE [exc |-> ExceptNotFoundByKernel(_send_via_socket(errno)),
                       sent |-> prev.sent \o request.msgs]
         IN  IF prev.exc # "none" THEN prev
             ELSE StopOne(IF tx
                          THEN bcm_stop_periodic_send(ids[n], framedef.frame_format)
                          ELSE bcm_stop_reception(framedef.frame_id, framedef.frame_format))

StopSendingResult(rejected) ==
    IF ~use_bcm THEN [exc |-> "none", sent |-> << >>]
    ELSE StopLoop(output_framedefinition_storage, Len(output_framedefinition_storage),
                  framedefinitions, rejected, TRUE)

StopReceptionResult(rejected) ==
    IF ~use_bcm THEN [exc |-> "none", sent |-> << >>]
    ELSE StopLoop(input_framedefinition_storage, Len(input_framedefinition_storage),
                  framedefinitions, rejected, FALSE)

\* stop_sending putting the periodic frames back to not yet started.
stop_sending_restarting(rejected) ==
    \E r \in { StopSendingResult(rejected) } :
        /\ sent' = r.sent
        /\ call' = [op |-> "stop_sending", args |-> << >>, rejected |-> rejected,
                    raised |-> r.exc, status_before |-> transmissionstatus]
        /\ transmissionstatus' =
              [id \in DOMAIN transmissionstatus |->
                  IF transmissionstatus[id] = STATUS_PERIODIC
                  THEN STATUS_PERIODIC_NOT_YET_STARTED
                  ELSE transmissionstatus[id]]
        /\ UNCHANGED << myframe, myframedef, mysignal, outcome, framedefinitions, ego_node_ids, use_bcm, storage_vars, frames >>

stop_sending(rejected) ==
    \E r \in { StopSendingResult(rejected) } :
        /\ sent' = r.sent
        /\ call' = [op |-> "stop_sending", args |-> << >>, rejected |-> rejected,
                    raised |-> r.exc, status_before |-> transmissionstatus]
        /\ UNCHANGED << myframe, myframedef, mysignal, outcome, framedefinitions, ego_node_ids, use_bcm, storage_vars, frames, transmissionstatus >>

stop_reception(rejected) ==
    \E r \in { StopReceptionResult(rejected) } :
        /\ sent' = r.sent
        /\ call' = [op |-> "stop_reception", args |-> << >>, rejected |-> rejected,
                    raised |-> r.exc, status_before |-> transmissionstatus]
        /\ UNCHANGED << myframe, myframedef, mysignal, outcome, framedefinitions, ego_node_ids, use_bcm, storage_vars, frames, transmissionstatus >>

stop(rejected) ==
    \E s \in { StopSendingResult(rejected) }, r \in { StopReceptionResult(rejected) } :
        /\ sent' = IF s.exc # "none" THEN s.sent ELSE s.sent \o r.sent
        /\ call' = [op |-> "stop", args |-> << >>, rejected |-> rejected,
                    raised |-> IF s.exc # "none" THEN s.exc ELSE r.exc,
                    status_before |-> transmissionstatus]
        /\ UNCHANGED << myframe, myframedef, mysignal, outcome, framedefinitions, ego_node_ids, use_bcm, storage_vars, frames, transmissionstatus >>

\* --- CanBus.init_reception ------------------------------------------------
\* The BCM loop over _input_framedefinition_storage after n definitions.
RECURSIVE SetupReceptions(_, _, _)
SetupReceptions(ids, n, defs) ==
    IF n = 0 THEN [exc |-> "none", sent |-> << >>]
    ELSE LET prev == SetupReceptions(ids, n - 1, defs)
             framedef == FrameDefOf(defs, ids[n])
             mask == IF framedef.receive_on_change_only
                     THEN Some(get_signal_mask(framedef)) ELSE None
             Setup(r) == [exc |-> r.exc, sent |-> prev.sent \o r.msgs]
         IN  IF prev.exc # "none" THEN prev
             ELSE Setup(bcm_setup_reception(framedef.frame_id, framedef.frame_format,
                                            framedef.throttle_time, mask))

init_reception ==
    \E r \in { IF use_bcm
                THEN SetupReceptions(input_framedefinition_storage,
                                     Len(input_framedefinition_storage), framedefinitions)
                ELSE [exc |-> "none",
                      sent |-> raw_set_receive_filters(input_framedefinition_storage)] } :
        /\ sent' = r.sent
        /\ call' = [op |-> "init_reception", args |-> << >>, rejected |-> << >>,
                    raised |-> r.exc, status_before |-> transmissionstatus]
        /\ UNCHANGED << myframe, myframedef, mysignal, outcome, framedefinitions, ego_node_ids, use_bcm, storage_vars, frames, transmissionstatus >>

\* set_throttle_times({frame_id: throttle_time}); throttle_time_setter is
\* the setter of CanFrameDefinition.throttle_time: the exception raised.
set_throttle_times(frame_id, throttle_time) ==
    LET throttle_time_setter(value) ==
            IF value = None THEN "none"
            ELSE IF Val(value) < 0 \/ Val(value) > MAX_FRAME_CYCLETIME_MILLISECONDS
            THEN "CanException"
            ELSE "none"
        exc == IF frame_id \notin FrameIds(framedefinitions) THEN "CanException"
               ELSE throttle_time_setter(throttle_time)
    IN  /\ framedefinitions' =
              IF exc # "none" THEN framedefinitions
              ELSE [framedefinitions EXCEPT
                       ![CHOOSE i \in 1..Len(framedefinitions) :
                            framedefinitions[i].frame_id = frame_id].throttle_time = throttle_time]
        /\ sent' = << >>
        /\ call' = [op |-> "set_throttle_times", args |-> << << frame_id, throttle_time >> >>,
                    rejected |-> << >>, raised |-> exc,
                    status_before |-> transmissionstatus]
        /\ UNCHANGED << myframe, myframedef, mysignal, outcome, ego_node_ids, use_bcm, storage_vars, frames, transmissionstatus >>

\* set_receive_on_change_only([frame_id])
set_receive_on_change_only(frame_id) ==
    LET exc == IF frame_id \notin FrameIds(framedefinitions) THEN "CanException" ELSE "none"
    IN  /\ framedefinitions' =
              IF exc # "none" THEN framedefinitions
              ELSE [framedefinitions EXCEPT
                       ![CHOOSE i \in 1..Len(framedefinitions) :
                            framedefinitions[i].frame_id = frame_id].receive_on_change_only = TRUE]
        /\ sent' = << >>
        /\ call' = [op |-> "set_receive_on_change_only", args |-> << << frame_id >> >>,
                    rejected |-> << >>, raised |-> exc,
                    status_before |-> transmissionstatus]
        /\ UNCHANGED << myframe, myframedef, mysignal, outcome, ego_node_ids, use_bcm, storage_vars, frames, transmissionstatus >>

(***************************************************************************)
(* The calls the model makes on a CanBus object.                           *)
(***************************************************************************)
MaxSignalsToSend == 2
MaxValue == 3
MaxRejected == 1

\* The dicts given to send_signals: at most MaxSignalsToSend items with
\* distinct names, each name an outbound signal or "x", a signal name that
\* no frame definition has; each value None or MaxValue.
SignalDicts(names) ==
    LET Values == { None, Some(Num(MaxValue)) }
    IN  UNION { { d \in [1..n -> (names \cup {"x"}) \X Values] :
                    \A i, j \in 1..n : d[i][1] = d[j][1] => i = j }
                : n \in 0..MaxSignalsToSend }

\* The answers of the kernel to the deletes of a stop operation over the
\* frame ids of storage: errors for at most MaxRejected of the ids that the
\* operation deletes (without the BCM no delete is made).
Rejections(storage) ==
    LET ids == IF use_bcm THEN { storage[i] : i \in DOMAIN storage } ELSE {}
    IN  UNION { [R -> { EINVAL, ENETDOWN }] :
                R \in { S \in SUBSET ids : Cardinality(S) <= MaxRejected } }

Next ==
    \/ \E signals_to_send \in SignalDicts(DOMAIN output_signaldefinition_storage) :
          send_signals(signals_to_send)
    \/ \E args \in { << >>, << "str" >>, << "list", "dict" >> } : send_signals_without_dict(args)
    \/ start_sending_all_signals
    \/ \E rejected \in Rejections(output_framedefinition_storage) : stop_sending(rejected)
    \/ \E rejected \in Rejections(input_framedefinition_storage) : stop_reception(rejected)
    \/ \E rejected \in Rejections(output_framedefinition_storage \o input_framedefinition_storage) : stop(rejected)
    \/ init_reception

Spec == Init /\ [][Next]_vars

\* The reception side: the frame definitions are configured, then the
\* reception is set up.
UnknownFrameId == 9

NextRx ==
    \/ \E frame_id \in { 1, 3, UnknownFrameId } :
       \E throttle_time \in { None, Some(0), Some(20), Some(1001), Some(MAX_FRAME_CYCLETIME_MILLISECONDS + 1) } :
          set_throttle_times(frame_id, throttle_time)
    \/ \E frame_id \in { 1, 3, UnknownFrameId } : set_receive_on_change_only(frame_id)
    \/ init_reception
    \/ \E rejected \in Rejections(input_framedefinition_storage) : stop_reception(rejected)

SpecRx == Init /\ [][NextRx]_vars


(***************************************************************************)
(* Reading the record of the last call.                                    *)
(***************************************************************************)
\* TRUE when the last operation ran the body of send_signals.
InSendSignals ==
    \/ call.op = "send_signals"
    \/ call.op = "start_sending_all_signals" /\ use_bcm

\* The frame id a message handed to the socket is about.
MessageFrameId(msg) ==
    IF msg.proto = "bcm" THEN msg.header.can_id.id ELSE msg.rawframe.can_id.id

\* The messages of the last operation about frame_id, in order.
MessagesFor(frame_id) ==
    LET about(msg) == MessageFrameId(msg) = frame_id
    IN  SelectSeq(sent, about)

\* The frames that own a signal named in the arguments of the last call.
TouchedFrameIds ==
    { output_frame_storage[call.args[i][1]] :
        i \in { j \in 1..Len(call.args) :
                  call.args[j][1] \in DOMAIN output_frame_storage } }

(***************************************************************************)
(* C1.  In BCM mode, the first send_signals call that touches an outbound  *)
(* frame in status periodic-not-yet-started issues for it a TX_SETUP with  *)
(* flags SETTIMER|STARTTIMER and ival2 equal to the configured cycle time, *)
(* carrying the updated working frame, and sets the status to periodic.    *)
(***************************************************************************)
C1_FirstSendStartsPeriodic ==
    (use_bcm /\ InSendSignals /\ call.raised = "none") =>
        \A id \in TouchedFrameIds :
            call.status_before[id] = STATUS_PERIODIC_NOT_YET_STARTED =>
                /\ transmissionstatus[id] = STATUS_PERIODIC
                /\ \E k \in 1..Len(sent) :
                      /\ MessageFrameId(sent[k]) = id
                      /\ sent[k].header.opcode = CAN_BCM_TX_SETUP
                      /\ sent[k].header.flags = BCM_FLAG_SETTIMER + BCM_FLAG_STARTTIMER
                      /\ sent[k].header.ival2 =
                            (LET ms == Val(FrameDefOf(framedefinitions, id).cycletime) IN << ms \div MILLISECONDS_PER_SECOND, (ms % MILLISECONDS_PER_SECOND) * (MICROSECONDS_PER_SECOND \div MILLISECONDS_PER_SECOND) >>)
                      /\ sent[k].frames = << get_rawframe(frames[id]) >>

(***************************************************************************)
(* C2.  In every send_signals call, RAW or BCM, whatever the transmission  *)
(* status, at most one command is issued to the interface for each touched *)
(* frame, and none for a frame that no given signal belongs to.            *)
(***************************************************************************)
C2_AtMostOneCommandPerFrame ==
    InSendSignals =>
        \A id \in FrameIds(framedefinitions) :
            Len(MessagesFor(id)) <= (IF id \in TouchedFrameIds THEN 1 ELSE 0)

(***************************************************************************)
(* C3.  In BCM mode, a send_signals call that touches a frame whose status *)
(* is already periodic issues for it one TX_SETUP with neither SETTIMER    *)
(* nor STARTTIMER and a zero interval, and leaves the status periodic.     *)
(***************************************************************************)
C3_PeriodicUpdateKeepsTimer ==
    (use_bcm /\ InSendSignals /\ call.raised = "none") =>
        \A id \in TouchedFrameIds :
            call.status_before[id] = STATUS_PERIODIC =>
                /\ transmissionstatus[id] = STATUS_PERIODIC
                /\ Len(MessagesFor(id)) = 1
                /\ LET msg == MessagesFor(id)[1]
                   IN  /\ msg.header.opcode = CAN_BCM_TX_SETUP
                       /\ ~HasFlag(msg.header.flags, BCM_FLAG_SETTIMER)
                       /\ ~HasFlag(msg.header.flags, BCM_FLAG_STARTTIMER)
                       /\ msg.header.ival2 = << 0, 0 >>
                       /\ msg.frames = << get_rawframe(frames[id]) >>

C3_Witness ==
    /\ use_bcm /\ call.op = "send_signals" /\ call.raised = "none"
    /\ \E id \in TouchedFrameIds :
          /\ call.status_before[id] = STATUS_PERIODIC
          /\ Len(MessagesFor(id)) = 1

(***************************************************************************)
(* C4.  In BCM mode, an outbound frame whose cycle time is None or 0 has   *)
(* status nonperiodic from the start, and every send_signals call touching *)
(* it issues one TX_SEND (flags 0, interval 0, one payload frame) and no   *)
(* TX_SETUP; a frame with another cycle time starts as                     *)
(* periodic-not-yet-started.                                               *)
(***************************************************************************)
C4_NonperiodicFrames ==
    /\ \A id \in DOMAIN transmissionstatus :
          LET cycletime == FrameDefOf(framedefinitions, id).cycletime
          IN  IF cycletime = None \/ cycletime = Some(0)
              THEN transmissionstatus[id] = STATUS_NONPERIODIC
              ELSE /\ transmissionstatus[id] # STATUS_NONPERIODIC
                   /\ call.op = "__init__" =>
                         transmissionstatus[id] = STATUS_PERIODIC_NOT_YET_STARTED
    /\ (use_bcm /\ InSendSignals /\ call.raised = "none") =>
          \A id \in TouchedFrameIds :
              call.status_before[id] = STATUS_NONPERIODIC =>
                  /\ Len(MessagesFor(id)) = 1
                  /\ LET msg == MessagesFor(id)[1]
                     IN  /\ msg.header.opcode = CAN_BCM_TX_SEND
                         /\ msg.header.flags = 0
                         /\ msg.header.ival2 = << 0, 0 >>
                         /\ msg.header.nframes = 1
                         /\ msg.frames = << get_rawframe(frames[id]) >>

C4_Witness ==
    /\ use_bcm /\ call.op = "send_signals" /\ call.raised = "none"
    /\ \E id \in TouchedFrameIds :
          /\ FrameDefOf(framedefinitions, id).cycletime = Some(0)
          /\ Len(MessagesFor(id)) = 1
          /\ MessagesFor(id)[1].header.opcode = CAN_BCM_TX_SEND

(***************************************************************************)
(* C5.  send_signals validates all signal names before any mutation: when  *)
(* the given map contains a name that is not an outbound signal, the call  *)
(* fails and no working frame buffer has been changed, whatever the other  *)
(* names and values and their order.                                       *)
(***************************************************************************)
C5_ValidatesBeforeMutation ==
    [][ (/\ call'.op = "send_signals"
         /\ \E i \in 1..Len(call'.args) :
               call'.args[i][1] \notin DOMAIN output_signaldefinition_storage)
        => (call'.raised = "CanException" /\ frames' = frames) ]_vars

(***************************************************************************)
(* C6.  start_sending_all_signals on a BCM facade arms all periodic slots: *)
(* when it returns, every outbound frame definition whose cycle time is    *)
(* set and nonzero has status periodic, and a TX_SETUP with STARTTIMER has *)
(* been issued for it if it was not periodic already.  On a RAW facade the *)
(* call issues no command and changes no state.                            *)
(***************************************************************************)
C6_StartArmsAllPeriodicFrames ==
    [][ call'.op = "start_sending_all_signals" =>
          IF use_bcm
          THEN /\ call'.raised = "none"
               /\ \A n \in 1..Len(output_framedefinition_storage) :
                     LET id == output_framedefinition_storage[n]
                         cycletime == FrameDefOf(framedefinitions, id).cycletime
                     IN  (cycletime # None /\ cycletime # Some(0)) =>
                            /\ transmissionstatus'[id] = STATUS_PERIODIC
                            /\ transmissionstatus[id] # STATUS_PERIODIC =>
                                  \E k \in 1..Len(sent') :
                                      /\ MessageFrameId(sent'[k]) = id
                                      /\ sent'[k].header.opcode = CAN_BCM_TX_SETUP
                                      /\ HasFlag(sent'[k].header.flags, BCM_FLAG_STARTTIMER)
          ELSE /\ sent' = << >>
               /\ call'.raised = "none"
               /\ UNCHANGED << framedefinitions, ego_node_ids, use_bcm, storage_vars, frames, transmissionstatus >> ]_vars

(***************************************************************************)
(* C7.  On a BCM facade stop_sending issues one TX_DELETE for every        *)
(* outbound frame id and stop_reception one RX_DELETE for every inbound    *)
(* frame definition; when the kernel rejects deletes with EINVAL the error *)
(* is swallowed, the remaining deletes are still issued, and stop,         *)
(* stop_sending and stop_reception return without raising, in every state  *)
(* of the bus, stopped before or not.                                      *)
(***************************************************************************)
DeletesIssued(ids, opcode, msgs) ==
    /\ Len(msgs) = Len(ids)
    /\ \A n \in 1..Len(ids) :
          /\ msgs[n].header.opcode = opcode
          /\ msgs[n].header.can_id.id = ids[n]
          /\ msgs[n].header.nframes = 0
          /\ msgs[n].frames = << >>

CarriedFrame(msg) ==
    LET rawframe == IF msg.proto = "bcm" THEN msg.frames[1] ELSE msg.rawframe
    IN  CanFrame(rawframe.can_id.id, SubSeq(rawframe.data, 1, rawframe.dlc),
                 IF rawframe.can_id.eff THEN CAN_FRAMEFORMAT_EXTENDED
                 ELSE CAN_FRAMEFORMAT_STANDARD)

\* The value that a frame holds for a signal after set_signalvalue(value).
GivenValue(sd, value) ==
    LimitToMinMax(sd, IF value = None THEN Num(sd.defaultvalue) ELSE Val(value))

\* The payload bits of a signal.
SignalBits(sd) ==
    get_shiftedvalue_from_busvalue(0..(sd.numberofbits - 1), sd.endianness,
                                   sd.numberofbits, sd.startbit)

\* The claim as stated: every message about a frame holds every value given
\* for a signal of the frame.
C8_DataContainsEveryValue ==
    (InSendSignals /\ call.raised = "none") =>
        \A k \in 1..Len(sent), i \in 1..Len(call.args) :
            LET sd == output_signaldefinition_storage[call.args[i][1]]
            IN  MessageFrameId(sent[k]) = output_frame_storage[call.args[i][1]] =>
                    get_signalvalue(CarriedFrame(sent[k]), sd).value
                        = GivenValue(sd, call.args[i][2])

\* The claim as amended: every message carries the working buffer as it is
\* after all updates of the call, and holds every value given for a signal
\* whose bits no signal given later in the call shares.
C8_DataAfterAllUpdates ==
    (InSendSignals /\ call.raised = "none") =>
        \A k \in 1..Len(sent) :
            /\ CarriedFrame(sent[k]) = frames[MessageFrameId(sent[k])]
            /\ \A i \in 1..Len(call.args) :
                  LET sd == output_signaldefinition_storage[call.args[i][1]]
                      later == { j \in (i + 1)..Len(call.args) :
                                   /\ output_frame_storage[call.args[j][1]]
                                         = output_frame_storage[call.args[i][1]]
                                   /\ SignalBits(output_signaldefinition_storage[call.args[j][1]])
                                         \cap SignalBits(sd) # {} }
                  IN  (/\ MessageFrameId(sent[k]) = output_frame_storage[call.args[i][1]]
                       /\ later = {})
                      => get_signalvalue(CarriedFrame(sent[k]), sd).value
                            = GivenValue(sd, call.args[i][2])

\* A call gave two values for two signals of one frame, the first of them
\* not the value the buffer held, and the frame was handed over.
C8_Witness ==
    /\ call.op = "send_signals" /\ call.raised = "none"
    /\ Len(call.args) = 2
    /\ output_frame_storage[call.args[1][1]] = output_frame_storage[call.args[2][1]]
    /\ call.args[1][2] = Some(Num(MaxValue))
    /\ Len(sent) >= 1
    /\ get_signalvalue(CarriedFrame(sent[1]),
                       output_signaldefinition_storage[call.args[1][1]]).value = Num(MaxValue)

(***************************************************************************)
(* C9.  init_reception on a BCM facade issues exactly one RX_SETUP for     *)
(* every inbound frame definition and none for outbound ones; SETTIMER is  *)
(* set and ival2 carries throttle_time iff throttle_time > 0; the message  *)
(* carries RX_CHECK_DLC with the signal mask of the definition as payload  *)
(* iff receive_on_change_only is set, and else RX_FILTER_ID without        *)
(* RX_CHECK_DLC.                                                           *)
(***************************************************************************)
C9_ReceptionSetup ==
    (call.op = "init_reception" /\ use_bcm) =>
        /\ call.raised = "none"
        /\ Len(sent) = Len(input_framedefinition_storage)
        /\ \A n \in 1..Len(sent) :
              LET framedef == FrameDefOf(framedefinitions, input_framedefinition_storage[n])
                  throttled == framedef.throttle_time # None /\ Val(framedef.throttle_time) > 0
                  header == sent[n].header
              IN  /\ ~is_outbound(framedef, ego_node_ids)
                  /\ header.opcode = CAN_BCM_RX_SETUP
                  /\ header.can_id = CombinedId(framedef.frame_id, framedef.frame_format)
                  /\ HasFlag(header.flags, BCM_FLAG_SETTIMER) <=> throttled
                  /\ header.ival2 = IF throttled THEN (LET ms == Val(framedef.throttle_time) IN << ms \div MILLISECONDS_PER_SECOND, (ms % MILLISECONDS_PER_SECOND) * (MICROSECONDS_PER_SECOND \div MILLISECONDS_PER_SECOND) >>)
                                    ELSE << 0, 0 >>
                  /\ HasFlag(header.flags, BCM_FLAG_RX_CHECK_DLC)
                        <=> framedef.receive_on_change_only
                  /\ HasFlag(header.flags, BCM_FLAG_RX_FILTER_ID)
                        <=> ~framedef.receive_on_change_only
                  /\ Len(sent[n].frames) = 1
                  /\ framedef.receive_on_change_only =>
                        sent[n].frames[1].data = get_signal_mask(framedef)

(***************************************************************************)
(* C10.  The facade classifies every frame definition of its configuration *)
(* as outbound iff its producers and the ego_node_ids of the configuration *)
(* have a common element, else as inbound; every frame definition is in    *)
(* exactly one of the two sets, and only outbound frames have a working    *)
(* buffer and a transmission status.                                       *)
(***************************************************************************)
C10_OutboundInboundPartition ==
    \A i \in 1..Len(framedefinitions) :
        LET framedef == framedefinitions[i]
            id == framedef.frame_id
            common == framedef.producer_ids \cap ego_node_ids # {}
            stored_out == \E n \in 1..Len(output_framedefinition_storage) :
                              output_framedefinition_storage[n] = id
            stored_in == \E n \in 1..Len(input_framedefinition_storage) :
                             input_framedefinition_storage[n] = id
        IN  /\ stored_out <=> common
            /\ stored_in <=> ~common
            /\ (id \in DOMAIN transmissionstatus) <=> common
            /\ (id \in DOMAIN frames) <=> common
            /\ \A name \in DOMAIN output_frame_storage :
                  output_frame_storage[name] = id => common

\* A facade with outbound and inbound frames, one of the outbound frames
\* having a producer that is not an ego node, after some sending.
C10_Witness ==
    /\ call.op = "send_signals"
    /\ Len(input_framedefinition_storage) >= 1
    /\ \E n \in 1..Len(output_framedefinition_storage) :
          LET framedef == FrameDefOf(framedefinitions, output_framedefinition_storage[n])
          IN  /\ framedef.producer_ids \ ego_node_ids # {}
              /\ framedef.frame_id \in DOMAIN frames

(***************************************************************************)
(* The objects of the library used without a CanBus object: signal         *)
(* definitions, frame definitions and frames.                              *)
(***************************************************************************)
CAN_MASK_ID_ONLY == 536870911
BITS_IN_SINGLE_PRECISION_FLOAT == 32
BITS_IN_DOUBLE_PRECISION_FLOAT == 64
SIZE_CAN_RAWFRAME == 16
SIZE_BCM_HEADER == 56

\* --- cansignal.py: the property setters; each gives the exception raised
\* and the signal definition after the assignment.
endianness_setter(sd, value) ==
    IF value \notin { LITTLE_ENDIAN, BIG_ENDIAN }
    THEN [exc |-> "CanException", sd |-> sd]
    ELSE [exc |-> "none", sd |-> [sd EXCEPT !.endianness = value]]

signaltype_setter(sd, value) ==
    IF value \notin { CAN_SIGNALTYPE_UNSIGNED, CAN_SIGNALTYPE_SIGNED,
                      CAN_SIGNALTYPE_SINGLE, CAN_SIGNALTYPE_DOUBLE }
    THEN [exc |-> "CanException", sd |-> sd]
    ELSE [exc |-> "none", sd |-> [sd EXCEPT !.signaltype = value]]

startbit_setter(sd, value) ==
    IF value < 0 \/ value > BITS_IN_FULL_DATA - 1
    THEN [exc |-> "CanException", sd |-> sd]
    ELSE [exc |-> "none", sd |-> [sd EXCEPT !.startbit = value]]

numberofbits_setter(sd, value) ==
    LET stopbit == sd.startbit + value - 1
        startbit_backwards == calculate_backward_bitnumber(sd.startbit)
        stopbit_backwards == startbit_backwards + value - 1
    IN  IF value <= 0 \/ value > BITS_IN_FULL_DATA
        THEN [exc |-> "CanException", sd |-> sd]
        ELSE IF sd.endianness = LITTLE_ENDIAN /\ stopbit >= BITS_IN_FULL_DATA
        THEN [exc |-> "CanException", sd |-> sd]
        ELSE IF sd.endianness # LITTLE_ENDIAN /\ stopbit_backwards >= BITS_IN_FULL_DATA
        THEN [exc |-> "CanException", sd |-> sd]
        ELSE IF sd.signaltype = CAN_SIGNALTYPE_SINGLE /\ value # BITS_IN_SINGLE_PRECISION_FLOAT
        THEN [exc |-> "CanException", sd |-> sd]
        ELSE IF sd.signaltype = CAN_SIGNALTYPE_DOUBLE /\ value # BITS_IN_DOUBLE_PRECISION_FLOAT
        THEN [exc |-> "CanException", sd |-> sd]
        ELSE [exc |-> "none", sd |-> [sd EXCEPT !.numberofbits = value]]

\* _check_signal_value_range for an optional integer: TRUE when it returns.
check_signal_value_range(sd, value) ==
    value # None =>
        /\ ~NumLess(Num(Val(value)), get_minimum_possible_value(sd))
        /\ ~NumLess(get_maximum_possible_value(sd), Num(Val(value)))

\* CanSignalDefinition.__init__ with scalingfactor 1, valueoffset 0 and no
\* defaultvalue: the assignments in the order of the code; the exception
\* raised and the object.
SignalInit(signalname, startbit, numberofbits, minvalue, maxvalue, endianness, signaltype) ==
    LET blank == CanSignalDefinition(signalname, 0, 0, 1, 0, None, None, None,
                                     LITTLE_ENDIAN, CAN_SIGNALTYPE_UNSIGNED)
        e == endianness_setter(blank, endianness)
        t == signaltype_setter(e.sd, signaltype)
        b == startbit_setter(t.sd, startbit)
        n == numberofbits_setter(b.sd, numberofbits)
        full == [n.sd EXCEPT !.minvalue = minvalue, !.maxvalue = maxvalue]
    IN  IF e.exc # "none" THEN e
        ELSE IF t.exc # "none" THEN t
        ELSE IF b.exc # "none" THEN b
        ELSE IF n.exc # "none" THEN n
        ELSE IF ~check_signal_value_range(n.sd, minvalue)
                \/ ~check_signal_value_range(n.sd, maxvalue)
        THEN [exc |-> "CanException", sd |-> n.sd]
        ELSE [exc |-> "none", sd |-> full]

\* --- canframe.py: from_rawframe and unpack.
\* CanFrame.from_rawframe for the 16 bytes of a rawframe: the exception
\* raised (by the setters of the new frame) and the frame.
from_rawframe(rawframe) ==
    LET frame_id == BitsToInt(IntToBits(rawframe.can_id.id) \cap IntToBits(CAN_MASK_ID_ONLY))
        frame_format == IF rawframe.can_id.eff THEN CAN_FRAMEFORMAT_EXTENDED
                        ELSE CAN_FRAMEFORMAT_STANDARD
        framedata == SubSeq(rawframe.data, 1, IF rawframe.dlc <= Len(rawframe.data)
                                                THEN rawframe.dlc ELSE Len(rawframe.data))
    IN  IF ~check_frame_id_and_format(frame_id, frame_format)
        THEN [exc |-> "CanException", frame |-> None]
        ELSE [exc |-> "none", frame |-> CanFrame(frame_id, framedata, frame_format)]

\* The loop of unpack over the first n signal definitions: the exception
\* raised and the pairs <<signalname, value>> in the order they are stored.
RECURSIVE UnpackSignals(_, _, _)
UnpackSignals(frame, sigdefs, n) ==
    IF n = 0 THEN [exc |-> "none", items |-> << >>]
    ELSE LET prev == UnpackSignals(frame, sigdefs, n - 1)
             val == get_signalvalue(frame, sigdefs[n])
         IN  IF prev.exc # "none" THEN prev
             ELSE IF val.exc # "none" THEN [exc |-> val.exc, items |-> << >>]
             ELSE [exc |-> "none",
                   items |-> Append(prev.items, << sigdefs[n].signalname, val.value >>)]

\* The dict of a sequence of items: a later item replaces an earlier one
\* with the same key.
DictOf(items) ==
    [key \in { items[i][1] : i \in 1..Len(items) } |->
        LET last == CHOOSE i \in 1..Len(items) :
                        /\ items[i][1] = key
                        /\ \A j \in (i + 1)..Len(items) : items[j][1] # key
        IN  items[last][2]]

\* CanFrame.unpack without the comparison of the payload length to the dlc.
unpack_any_length(frame, frame_definitions) ==
    IF frame.frame_id \notin FrameIds(frame_definitions)
    THEN [exc |-> "none", value |-> DictOf(<< >>)]
    ELSE LET fr_def == FrameDefOf(frame_definitions, frame.frame_id)
             r == UnpackSignals(frame, fr_def.signaldefinitions,
                                Len(fr_def.signaldefinitions))
         IN  IF r.exc # "none" THEN [exc |-> r.exc, value |-> DictOf(<< >>)]
             ELSE [exc |-> "none", value |-> DictOf(r.items)]

\* CanFrame.unpack; frame_definitions is the dict as the sequence of its
\* values, keyed by their frame_id.
unpack(frame, frame_definitions) ==
    IF frame.frame_id \notin FrameIds(frame_definitions)
    THEN [exc |-> "none", value |-> DictOf(<< >>)]
    ELSE LET fr_def == FrameDefOf(frame_definitions, frame.frame_id)
             r == UnpackSignals(frame, fr_def.signaldefinitions,
                                Len(fr_def.signaldefinitions))
         IN  IF Len(frame.frame_data) # fr_def.dlc
             THEN [exc |-> "CanException", value |-> DictOf(<< >>)]
             ELSE IF r.exc # "none" THEN [exc |-> r.exc, value |-> DictOf(<< >>)]
             ELSE [exc |-> "none", value |-> DictOf(r.items)]

(***************************************************************************)
(* The codec: set_signalvalue, get_signalvalue, unpack and get_signal_mask *)
(* on a frame and a frame definition.                                      *)
(***************************************************************************)
\* The frame definitions of the codec: one with one signal and the smallest
\* dlc for it, for each signal of Signals; three of the configuration; and
\* two with a dlc of one byte and a signal in the second byte.  Signals are
\* the integer signal definitions that __init__ accepts, with the start
\* bits and the widths of the model; the signals of LimitedWidths are also
\* defined with minvalue 1 and maxvalue 2.
CodecFrameDefinitions ==
    LET StartBits == { 0, 3, 8, 56 }
        Widths == { 1, 2, 3, 12, 53, 54, 64 }
        LimitedWidths == { 3, 64 }
        Limits == { << None, None >>, << Some(1), Some(2) >> }
        Signals ==
            { r.sd : r \in { c \in { SignalInit("s", b, n, lim[1], lim[2], e, t) :
                                        b \in StartBits, n \in Widths, lim \in Limits,
                                        e \in { LITTLE_ENDIAN, BIG_ENDIAN },
                                        t \in { CAN_SIGNALTYPE_UNSIGNED,
                                                CAN_SIGNALTYPE_SIGNED } } :
                             /\ c.exc = "none"
                             /\ (c.sd.minvalue # None
                                    => c.sd.numberofbits \in LimitedWidths) } }
        Single(sd) ==
            [CanFrameDefinition(1, get_minimum_dlc(sd), None, CAN_FRAMEFORMAT_STANDARD)
                EXCEPT !.signaldefinitions = << sd >>]
        Short(frame_id, name, endianness) ==
            [CanFrameDefinition(frame_id, 1, None, CAN_FRAMEFORMAT_STANDARD)
                EXCEPT !.signaldefinitions =
                    << SignalInit(name, 8, 8, None, None, endianness,
                                  CAN_SIGNALTYPE_UNSIGNED).sd >>]
    IN  { Single(sd) : sd \in Signals }
            \cup { FrameDefinitions[1], FrameDefinitions[3], FrameDefinitions[5],
                   Short(6, "l", LITTLE_ENDIAN), Short(7, "g", BIG_ENDIAN) }

\* The smallest and the largest integer of the bus value of a signal.
MinUnpacked(sd) ==
    IF sd.signaltype = CAN_SIGNALTYPE_UNSIGNED THEN Num(0)
    ELSE NumOf(TRUE, {sd.numberofbits - 1})
MaxUnpacked(sd) ==
    IF sd.signaltype = CAN_SIGNALTYPE_UNSIGNED THEN NumOf(FALSE, 0..(sd.numberofbits - 1))
    ELSE NumOf(FALSE, 0..(sd.numberofbits - 2))

\* The physical values given to set_signalvalue: None, the ends of the
\* range of the bus value, their neighbours outside, and 2^53 + 1, the
\* smallest positive integer that is not a double, and its negative.
CodecValues(sd) ==
    LET Odd53 == NumOf(FALSE, { 0, MantissaBits })
    IN  { None } \cup
        { Some(x) : x \in { MinUnpacked(sd), MaxUnpacked(sd),
                            NumSub(MinUnpacked(sd), Num(1)), NumAdd(MaxUnpacked(sd), Num(1)),
                            Odd53, NumSub(Num(0), Odd53) } }

\* The payloads of the frames: null bytes, one byte less than the dlc of
\* the definition and the dlc; and 8 bytes of 255.
CodecInit ==
    /\ framedefinitions = << >> /\ ego_node_ids = {} /\ use_bcm = FALSE
    /\ output_signaldefinition_storage = << >> /\ output_frame_storage = << >>
    /\ frames = << >> /\ output_framedefinition_storage = << >>
    /\ input_framedefinition_storage = << >> /\ transmissionstatus = << >>
    /\ sent = << >> /\ call = None /\ caninterface = None /\ threads = << >>
    /\ given_values = << >>
    /\ mysignal = None
    /\ myframedef \in CodecFrameDefinitions
    /\ \E frame_data \in { NullBytes(n) : n \in { myframedef.dlc - 1, myframedef.dlc } }
                              \cup { [k \in 1..MAX_NUMBER_OF_CAN_DATA_BYTES |-> 255] } :
          myframe = CanFrame(myframedef.frame_id, frame_data, myframedef.frame_format)
    /\ outcome = [op |-> "__init__", signal |-> 0, value |-> None,
                  before |-> myframe.frame_data, raised |-> "none", returned |-> None]

\* myframe.set_signalvalue(myframedef.signaldefinitions[n], value)
frame_set_signalvalue(n, value) ==
    \E r \in { set_signalvalue(myframe, myframedef.signaldefinitions[n], value) } :
        /\ myframe' = [myframe EXCEPT !.frame_data = r.frame_data]
        /\ outcome' = [op |-> "set_signalvalue", signal |-> n, value |-> value,
                       before |-> myframe.frame_data, raised |-> r.exc, returned |-> None]
        /\ UNCHANGED << canbus_vars, myframedef, mysignal >>

\* myframe.get_signalvalue(myframedef.signaldefinitions[n])
frame_get_signalvalue(n) ==
    \E r \in { get_signalvalue(myframe, myframedef.signaldefinitions[n]) } :
        /\ outcome' = [op |-> "get_signalvalue", signal |-> n, value |-> None,
                       before |-> myframe.frame_data, raised |-> r.exc,
                       returned |-> IF r.exc = "none" THEN Some(r.value) ELSE None]
        /\ UNCHANGED << canbus_vars, myframe, myframedef, mysignal >>

\* myframe.unpack(frame_definitions)
frame_unpack(frame_definitions) ==
    \E r \in { unpack(myframe, frame_definitions) } :
        /\ outcome' = [op |-> "unpack", signal |-> 0, value |-> Some(frame_definitions),
                       before |-> myframe.frame_data, raised |-> r.exc,
                       returned |-> IF r.exc = "none" THEN Some(r.value) ELSE None]
        /\ UNCHANGED << canbus_vars, myframe, myframedef, mysignal >>

\* myframedef.get_signal_mask()
framedef_get_signal_mask ==
    /\ outcome' = [op |-> "get_signal_mask", signal |-> 0, value |-> None,
                   before |-> myframe.frame_data, raised |-> "none",
                   returned |-> Some(get_signal_mask(myframedef))]
    /\ UNCHANGED << canbus_vars, myframe, myframedef, mysignal >>

\* The dicts given to unpack: with the definition, with another one, empty.
CodecNext ==
    \/ \E n \in 1..Len(myframedef.signaldefinitions) :
          \E value \in CodecValues(myframedef.signaldefinitions[n]) :
              frame_set_signalvalue(n, value)
    \/ \E n \in 1..Len(myframedef.signaldefinitions) : frame_get_signalvalue(n)
    \/ \E frame_definitions \in { << myframedef >>, << FrameDefinitions[4] >>, << >> } :
          frame_unpack(frame_definitions)
    \/ framedef_get_signal_mask

SpecCodec == CodecInit /\ [][CodecNext]_vars

(***************************************************************************)
(* The vocabulary of the claims about the codec.                           *)
(***************************************************************************)
\* The signal definition of the last set_signalvalue or get_signalvalue.
OutcomeSignal == myframedef.signaldefinitions[outcome.signal]

\* The payload bits that a signal occupies, as bit numbers of the 64-bit
\* integer of the payload: the bits startbit .. startbit + numberofbits - 1
\* in the normal numbering for little endian, and in the backward numbering
\* from the backward number of the startbit for big endian.
OccupiedBits(sd) ==
    IF sd.endianness = LITTLE_ENDIAN
    THEN { calculate_backward_bitnumber(i) :
             i \in sd.startbit..(sd.startbit + sd.numberofbits - 1) }
    ELSE { calculate_backward_bitnumber(sd.startbit) + i : i \in 0..(sd.numberofbits - 1) }

\* The representable physical range of a signal, in exact arithmetic.
Representable(sd, v) ==
    LET Physical(x) == NumAdd(NumMul(x, Num(sd.scalingfactor)), Num(sd.valueoffset))
    IN  ~NumLess(v, Physical(MinUnpacked(sd))) /\ ~NumLess(Physical(MaxUnpacked(sd)), v)

(***************************************************************************)
(* C11.  Round trip of integer signals: for every valid unsigned or signed *)
(* signal definition with scale 1, offset 0 and no min/max, and every      *)
(* integer v in its representable range, set_signalvalue(S, v) on an       *)
(* all-zero payload of length >= minimum_dlc(S) followed by                *)
(* get_signalvalue(S) returns exactly v.                                   *)
(***************************************************************************)
C11_IntegerRoundTrip ==
    (/\ outcome.op = "set_signalvalue" /\ outcome.value # None
     /\ OutcomeSignal.scalingfactor = 1 /\ OutcomeSignal.valueoffset = 0
     /\ OutcomeSignal.minvalue = None /\ OutcomeSignal.maxvalue = None
     /\ outcome.before = NullBytes(Len(outcome.before))
     /\ Len(outcome.before) >= get_minimum_dlc(OutcomeSignal)
     /\ Representable(OutcomeSignal, Val(outcome.value)))
    => /\ outcome.raised = "none"
       /\ get_signalvalue(myframe, OutcomeSignal)
              = [exc |-> "none", value |-> Val(outcome.value)]

(***************************************************************************)
(* C12.  Independence of signals: a successful set_signalvalue(A, v)       *)
(* leaves every payload bit that A does not occupy unchanged and leaves    *)
(* the payload length unchanged; hence every signal whose bits are         *)
(* disjoint from those of A decodes to the same value before and after.    *)
(***************************************************************************)
\* The signals to decode before and after (OtherSignals): those of the
\* frame definition and those of the configurations, decoded in the frame
\* and in the frame with the payload it had before (FrameBefore).
C12_Independence ==
    LET OtherSignals ==
            { myframedef.signaldefinitions[n] : n \in 1..Len(myframedef.signaldefinitions) }
                \cup UNION { { FrameDefinitions[i].signaldefinitions[n] :
                                n \in 1..Len(FrameDefinitions[i].signaldefinitions) }
                              : i \in 1..Len(FrameDefinitions) }
        FrameBefore == [myframe EXCEPT !.frame_data = outcome.before]
    IN  (outcome.op = "set_signalvalue" /\ outcome.raised = "none") =>
            /\ Len(myframe.frame_data) = Len(outcome.before)
            /\ can_bytes_to_int(myframe.frame_data) \ OccupiedBits(OutcomeSignal)
                   = can_bytes_to_int(outcome.before) \ OccupiedBits(OutcomeSignal)
            /\ \A other \in OtherSignals :
                   OccupiedBits(other) \cap OccupiedBits(OutcomeSignal) = {} =>
                       get_signalvalue(myframe, other) = get_signalvalue(FrameBefore, other)

\* A signal was set in a payload of one bits, next to a disjoint signal of
\* the same frame that decodes to a value other than 0.
C12_Witness ==
    /\ outcome.op = "set_signalvalue" /\ outcome.raised = "none"
    /\ myframe.frame_data # outcome.before
    /\ can_bytes_to_int(outcome.before) \ OccupiedBits(OutcomeSignal) # {}
    /\ \E n \in 1..Len(myframedef.signaldefinitions) :
           LET other == myframedef.signaldefinitions[n]
           IN  /\ OccupiedBits(other) \cap OccupiedBits(OutcomeSignal) = {}
               /\ get_signalvalue(myframe, other).exc = "none"
               /\ get_signalvalue(myframe, other).value # Num(0)

(***************************************************************************)
(* C13.  get_signal_mask returns the payload with exactly the bits set     *)
(* that are the union, over the signals of the frame definition, of the    *)
(* bits a signal occupies, which are the bits that set_signalvalue clears  *)
(* and writes.                                                             *)
(***************************************************************************)
C13_MaskIsUnionOfSignalBits ==
    outcome.op = "get_signal_mask" =>
        /\ Len(Val(outcome.returned)) = MAX_NUMBER_OF_CAN_DATA_BYTES
        /\ can_bytes_to_int(Val(outcome.returned))
               = UNION { OccupiedBits(myframedef.signaldefinitions[n]) :
                           n \in 1..Len(myframedef.signaldefinitions) }
        /\ \A n \in 1..Len(myframedef.signaldefinitions) :
               OccupiedBits(myframedef.signaldefinitions[n])
                   = SignalBits(myframedef.signaldefinitions[n])

\* The mask of a frame definition of two signals, one of them little endian
\* and of more than two bits.
C13_Witness ==
    /\ outcome.op = "get_signal_mask"
    /\ Len(myframedef.signaldefinitions) >= 2
    /\ \E n \in 1..Len(myframedef.signaldefinitions) :
           /\ myframedef.signaldefinitions[n].endianness = LITTLE_ENDIAN
           /\ myframedef.signaldefinitions[n].numberofbits > 2
    /\ Val(outcome.returned) # NullBytes(MAX_NUMBER_OF_CAN_DATA_BYTES)

(***************************************************************************)
(* C14.  A value outside the representable range of the signal is a fault, *)
(* never a silent clamp: set_signalvalue(S, v) with v outside the range    *)
(* fails with an error and leaves the payload unchanged, even when         *)
(* min/max are set; a value inside the range but outside [min, max] is     *)
(* stored as the nearer of min and max.                                    *)
(***************************************************************************)
\* StoredValue is the value that the payload holds for a signal, without
\* its limits.
C14_OutOfRangeIsFault ==
    (/\ outcome.op = "set_signalvalue" /\ outcome.value # None
     /\ Len(outcome.before) >= get_minimum_dlc(OutcomeSignal))
    => LET v == Val(outcome.value)
           StoredValue(frame, sd) ==
               get_signalvalue(frame, [sd EXCEPT !.minvalue = None, !.maxvalue = None])
           OutsideLimits(sd, w) ==
               \/ sd.minvalue # None /\ NumLess(w, Num(Val(sd.minvalue)))
               \/ sd.maxvalue # None /\ NumLess(Num(Val(sd.maxvalue)), w)
       IN  /\ ~Representable(OutcomeSignal, v) =>
                  /\ outcome.raised # "none"
                  /\ myframe.frame_data = outcome.before
           /\ (Representable(OutcomeSignal, v) /\ OutsideLimits(OutcomeSignal, v)) =>
                  /\ outcome.raised = "none"
                  /\ StoredValue(myframe, OutcomeSignal)
                         = [exc |-> "none", value |-> LimitToMinMax(OutcomeSignal, v)]

(***************************************************************************)
(* C15.  The DLC guard: set_signalvalue fails, with the payload unchanged, *)
(* when the payload is shorter than minimum_dlc(S), which is               *)
(* ((startbit + numberofbits - 1) div 8) + 1 for little endian and         *)
(* (startbit div 8) + 1 for big endian; with a payload of at least         *)
(* minimum_dlc(S) bytes every bit of the signal lies inside the payload.   *)
(***************************************************************************)
C15_DlcGuard ==
    outcome.op = "set_signalvalue" =>
        LET sd == OutcomeSignal
            minimum_dlc == IF sd.endianness = LITTLE_ENDIAN
                           THEN ((sd.startbit + sd.numberofbits - 1) \div 8) + 1
                           ELSE (sd.startbit \div 8) + 1
            payload_bits == (BITS_IN_FULL_DATA - BITS_PER_BYTE * Len(outcome.before))
                                ..(BITS_IN_FULL_DATA - 1)
        IN  /\ get_minimum_dlc(sd) = minimum_dlc
            /\ Len(outcome.before) < minimum_dlc =>
                   /\ outcome.raised = "CanException"
                   /\ myframe.frame_data = outcome.before
            /\ Len(outcome.before) >= minimum_dlc =>
                   /\ OccupiedBits(sd) \subseteq payload_bits
                   /\ SignalBits(sd) \subseteq payload_bits

\* set_signalvalue failed on a payload that is shorter than the little
\* endian signal needs, but long enough for its startbit.
C15_WitnessShort ==
    /\ outcome.op = "set_signalvalue" /\ outcome.raised = "CanException"
    /\ OutcomeSignal.endianness = LITTLE_ENDIAN
    /\ Len(outcome.before) < get_minimum_dlc(OutcomeSignal)
    /\ Len(outcome.before) >= OutcomeSignal.startbit \div BITS_PER_BYTE + 1

(***************************************************************************)
(* C16.  Decoding from a payload that is shorter than minimum_dlc(S)       *)
(* (get_signalvalue, and unpack with a frame definition whose dlc is       *)
(* smaller than the minimum_dlc of one of its signals) fails with the      *)
(* error of the library, CanException; it returns no value and raises no   *)
(* other exception.                                                        *)
(***************************************************************************)
\* The frame definition that unpack selects, and whether it selects one.
UnpackDefinition == FrameDefOf(Val(outcome.value), myframe.frame_id)

C16_ShortPayloadIsCanException ==
    /\ (outcome.op = "get_signalvalue"
        /\ Len(outcome.before) < get_minimum_dlc(OutcomeSignal))
       => outcome.raised = "CanException"
    /\ (outcome.op = "unpack" /\ (myframe.frame_id \in FrameIds(Val(outcome.value)))
        /\ Len(outcome.before) = UnpackDefinition.dlc /\ ~(\A n \in 1..Len(UnpackDefinition.signaldefinitions) :
                get_minimum_dlc(UnpackDefinition.signaldefinitions[n]) <= UnpackDefinition.dlc))
       => outcome.raised = "CanException"

get_rawframe_bytes(frame) ==
    LET rawframe == get_rawframe(frame)
        ByteOf(x, k) == (x \div (2 ^ (BITS_PER_BYTE * k))) % 256
    IN  << ByteOf(rawframe.can_id.id, 0), ByteOf(rawframe.can_id.id, 1),
           ByteOf(rawframe.can_id.id, 2),
           ByteOf(rawframe.can_id.id, 3) + (IF rawframe.can_id.eff THEN 128 ELSE 0),
           rawframe.dlc, 0, 0, 0 >>
        \o [k \in 1..MAX_NUMBER_OF_CAN_DATA_BYTES |->
                IF k <= Len(rawframe.data) THEN rawframe.data[k] ELSE 0]

\* CanFrame.from_rawframe of bytes.  struct.unpack("=IB3x8s", rawbytes)
\* raises struct.error unless there are 16 bytes, and struct.error becomes
\* CanException; bit 31 of the first part is the flag of the extended format.
from_rawframe_bytes(rawbytes) ==
    IF Len(rawbytes) # SIZE_CAN_RAWFRAME
    THEN [exc |-> "CanException", frame |-> None]
    ELSE from_rawframe(
             [can_id |-> [id |-> rawbytes[1] + 256 * rawbytes[2] + 65536 * rawbytes[3]
                                 + 16777216 * (rawbytes[4] % 128),
                          eff |-> rawbytes[4] >= 128],
              dlc |-> rawbytes[5],
              data |-> SubSeq(rawbytes, 9, 16)])

\* _parse_bcm_header: struct.unpack("@3I4l2I0q", header) raises struct.error
\* unless there are 56 bytes; the opcode is the first uint32.  The other
\* fields are not used by recv_next_frame.
parse_bcm_header(header) ==
    IF Len(header) # SIZE_BCM_HEADER
    THEN [exc |-> "struct.error", opcode |-> 0]
    ELSE [exc |-> "none",
          opcode |-> header[1] + 256 * header[2] + 65536 * header[3]
                     + 16777216 * (header[4] % 128)]

\* raw_message[a:b] for 0 <= a <= b.
Slice(raw_message, a, b) ==
    SubSeq(raw_message, a + 1, IF b <= Len(raw_message) THEN b ELSE Len(raw_message))

\* SocketCanBcmInterface.recv_next_frame; received is what recvfrom gives:
\* an error (socket.timeout, or OSError with its errno) or a message.  A
\* slice never raises IndexError, so a header that is not of 56 bytes makes
\* _parse_bcm_header raise struct.error, and the handler of Exception raises
\* KeyError while it formats its message: "{r}" names a keyword argument
\* that format() is not given.
recv_next_frame(received) ==
    IF received.error = "socket.timeout"
    THEN [exc |-> "CanTimeoutException", frame |-> None]
    ELSE IF received.error = "OSError" /\ received.errno \in { EBADF, ENETDOWN }
    THEN [exc |-> "CanException", frame |-> None]
    ELSE IF received.error = "OSError"
    THEN [exc |-> "OSError", frame |-> None]
    ELSE LET raw_message == received.raw_message
             header == parse_bcm_header(Slice(raw_message, 0, SIZE_BCM_HEADER))
             raw_frame == Slice(raw_message, SIZE_BCM_HEADER,
                                SIZE_BCM_HEADER + SIZE_CAN_RAWFRAME)
         IN  IF header.exc = "IndexError"
             THEN [exc |-> "CanException", frame |-> None]
             ELSE IF header.exc # "none"
             THEN [exc |-> "KeyError", frame |-> None]
             ELSE IF header.opcode # CAN_BCM_RX_CHANGED
             THEN [exc |-> "CanException", frame |-> None]
             ELSE from_rawframe_bytes(raw_frame)

\* The frames on the wire: the ends of the ranges of the ids of the two
\* formats, and payloads of 0..8 bytes, some of them ending in null bytes.
\* The bytes given to from_rawframe: those of get_rawframe(frame); the same
\* without the last byte, with one byte more, with a dlc byte of 9, and with
\* the bit of a remote request in the id.
WireRawframes(frame) ==
    LET rawbytes == get_rawframe_bytes(frame)
    IN  { rawbytes, SubSeq(rawbytes, 1, SIZE_CAN_RAWFRAME - 1), rawbytes \o << 0 >>,
          [rawbytes EXCEPT ![5] = MAX_NUMBER_OF_CAN_DATA_BYTES + 1],
          [rawbytes EXCEPT ![4] = (rawbytes[4] % 64) + 64 + 128 * (rawbytes[4] \div 128)] }

\* What recvfrom gives: an error, or the first bytes of a message about the
\* frame.  BcmHeaderBytes are the 56 bytes of a BCM header with an opcode
\* and one frame.  The lengths of the messages read: nothing, a part of the
\* header, the header, the header and a part of the frame, the whole
\* message, and the message with a second frame.
WireReceived(frame) ==
    LET BcmHeaderBytes(opcode) ==
            [k \in 1..SIZE_BCM_HEADER |-> IF k = 1 THEN opcode ELSE IF k = 53 THEN 1 ELSE 0]
        Opcodes == { CAN_BCM_RX_CHANGED, CAN_BCM_RX_SETUP, CAN_BCM_TX_SEND }
        Lengths ==
            { 0, 3, SIZE_BCM_HEADER - 1, SIZE_BCM_HEADER,
              SIZE_BCM_HEADER + SIZE_CAN_RAWFRAME - 1,
              SIZE_BCM_HEADER + SIZE_CAN_RAWFRAME, SIZE_BCM_HEADER + 2 * SIZE_CAN_RAWFRAME }
    IN  { [error |-> "socket.timeout", errno |-> 0, raw_message |-> << >>] }
        \cup { [error |-> "OSError", errno |-> e, raw_message |-> << >>] :
                 e \in { EBADF, ENETDOWN, EINVAL } }
        \cup { [error |-> "none", errno |-> 0,
                raw_message |-> Slice(BcmHeaderBytes(opcode) \o get_rawframe_bytes(frame)
                                          \o get_rawframe_bytes(frame), 0, n)] :
                 opcode \in Opcodes, n \in Lengths }

WireInit ==
    /\ framedefinitions = << >> /\ ego_node_ids = {} /\ use_bcm = TRUE
    /\ output_signaldefinition_storage = << >> /\ output_frame_storage = << >>
    /\ frames = << >> /\ output_framedefinition_storage = << >>
    /\ input_framedefinition_storage = << >> /\ transmissionstatus = << >>
    /\ sent = << >> /\ call = None /\ caninterface = None /\ threads = << >>
    /\ given_values = << >>
    /\ mysignal = None /\ myframedef = None
    /\ myframe \in
          LET Ids ==
                  { << 0, CAN_FRAMEFORMAT_STANDARD >>, << 1, CAN_FRAMEFORMAT_STANDARD >>,
                    << MAX_CAN_FRAME_ID_STANDARD, CAN_FRAMEFORMAT_STANDARD >>,
                    << 0, CAN_FRAMEFORMAT_EXTENDED >>,
                    << MAX_CAN_FRAME_ID_STANDARD + 1, CAN_FRAMEFORMAT_EXTENDED >>,
                    << MAX_CAN_FRAME_ID_EXTENDED, CAN_FRAMEFORMAT_EXTENDED >> }
              Payloads ==
                  { << >>, << 0 >>, << 1 >>, << 7, 0 >>, << 0, 0, 9 >>,
                    << 1, 2, 3, 4, 5, 6, 7, 8 >>, << 255, 255, 255, 255, 255, 255, 255, 0 >> }
          IN  { CanFrame(i[1], d, i[2]) : i \in Ids, d \in Payloads }
    /\ outcome = [op |-> "__init__", signal |-> 0, value |-> None,
                  before |-> myframe.frame_data, raised |-> "none", returned |-> None]

\* myframe.get_rawframe()
frame_get_rawframe ==
    /\ outcome' = [op |-> "get_rawframe", signal |-> 0, value |-> None,
                   before |-> myframe.frame_data, raised |-> "none",
                   returned |-> Some(get_rawframe_bytes(myframe))]
    /\ UNCHANGED << canbus_vars, myframe, myframedef, mysignal >>

\* CanFrame.from_rawframe(rawbytes)
frame_from_rawframe(rawbytes) ==
    \E r \in { from_rawframe_bytes(rawbytes) } :
        /\ outcome' = [op |-> "from_rawframe", signal |-> 0, value |-> Some(rawbytes),
                       before |-> myframe.frame_data, raised |-> r.exc,
                       returned |-> IF r.exc = "none" THEN Some(r.frame) ELSE None]
        /\ UNCHANGED << canbus_vars, myframe, myframedef, mysignal >>

\* recv_next_frame() of the BCM interface when recvfrom gives received.
bcm_recv_next_frame(received) ==
    \E r \in { recv_next_frame(received) } :
        /\ outcome' = [op |-> "recv_next_frame", signal |-> 0, value |-> Some(received),
                       before |-> myframe.frame_data, raised |-> r.exc,
                       returned |-> IF r.exc = "none" THEN Some(r.frame) ELSE None]
        /\ UNCHANGED << canbus_vars, myframe, myframedef, mysignal >>

WireNext ==
    \/ frame_get_rawframe
    \/ \E rawbytes \in WireRawframes(myframe) : frame_from_rawframe(rawbytes)
    \/ \E received \in WireReceived(myframe) : bcm_recv_next_frame(received)

SpecWire == WireInit /\ [][WireNext]_vars

(***************************************************************************)
(* C18.  recv_next_frame on the BCM interface returns a frame only for a   *)
(* received message whose header opcode is RX_CHANGED; for any other       *)
(* opcode, and for a short read (a message shorter than the 56-byte header *)
(* or without a complete 16-byte frame after it), it fails with            *)
(* CanException, never with another exception type.                        *)
(***************************************************************************)
\* The message of the last recv_next_frame, when recvfrom gave one.
C18_OnlyCanException ==
    (outcome.op = "recv_next_frame" /\ Val(outcome.value).error = "none") =>
        LET RawMessage == Val(outcome.value).raw_message
            ShortRead == Len(RawMessage) < SIZE_BCM_HEADER + SIZE_CAN_RAWFRAME
        IN  /\ outcome.returned # None =>
                   /\ ~ShortRead
                   /\ parse_bcm_header(Slice(RawMessage, 0, SIZE_BCM_HEADER)).opcode
                          = CAN_BCM_RX_CHANGED
            /\ ShortRead => outcome.raised = "CanException"
            /\ (Len(RawMessage) >= SIZE_BCM_HEADER
                /\ parse_bcm_header(Slice(RawMessage, 0, SIZE_BCM_HEADER)).opcode
                       # CAN_BCM_RX_CHANGED)
               => outcome.raised = "CanException"
            /\ outcome.raised \in { "none", "CanException" }

(***************************************************************************)
(* C19.  Raw wire round trip: for every frame f with a valid id for its    *)
(* format and 0..8 data bytes, from_rawframe(get_rawframe(f)) has the same *)
(* frame_id, frame_format and frame_data as f, and get_rawframe(f) is      *)
(* always 16 bytes with the dlc byte equal to len(frame_data) and the data *)
(* right-padded with zero bytes.                                           *)
(***************************************************************************)
C19_WireRoundTrip ==
    /\ outcome.op = "get_rawframe" =>
           LET rawbytes == Val(outcome.returned)
           IN  /\ Len(rawbytes) = 16
               /\ rawbytes[5] = Len(myframe.frame_data)
               /\ \A k \in 1..8 :
                      rawbytes[8 + k] = IF k <= Len(myframe.frame_data)
                                        THEN myframe.frame_data[k] ELSE 0
    /\ (outcome.op = "from_rawframe"
        /\ Val(outcome.value) = get_rawframe_bytes(myframe)) =>
           /\ outcome.raised = "none"
           /\ Val(outcome.returned).frame_id = myframe.frame_id
           /\ Val(outcome.returned).frame_format = myframe.frame_format
           /\ Val(outcome.returned).frame_data = myframe.frame_data

\* A frame of the extended format with a payload of two bytes, the last of
\* them a null byte, came back from its 16 bytes.
C19_Witness ==
    /\ outcome.op = "from_rawframe" /\ outcome.raised = "none"
    /\ Val(outcome.value) = get_rawframe_bytes(myframe)
    /\ myframe.frame_format = CAN_FRAMEFORMAT_EXTENDED
    /\ myframe.frame_id > MAX_CAN_FRAME_ID_STANDARD
    /\ myframe.frame_data = << 7, 0 >>
    /\ Val(outcome.returned) = myframe

(***************************************************************************)
(* A signal definition and the assignments to its attributes.              *)
(***************************************************************************)
SignalValues ==
    [startbit |-> { 0 - 1, 0, 7, 8, 56, 60, 63, 64 },
     numberofbits |-> { 0, 1, 8, 9, 32, 64, 65 },
     endianness |-> { LITTLE_ENDIAN, BIG_ENDIAN, "middle" },
     signaltype |-> { CAN_SIGNALTYPE_UNSIGNED, CAN_SIGNALTYPE_SIGNED, CAN_SIGNALTYPE_SINGLE,
                      CAN_SIGNALTYPE_DOUBLE, "boolean" }]

\* mysignal is one of the signal definitions that __init__ accepts.
SignalInitState ==
    /\ framedefinitions = << >> /\ ego_node_ids = {} /\ use_bcm = FALSE
    /\ output_signaldefinition_storage = << >> /\ output_frame_storage = << >>
    /\ frames = << >> /\ output_framedefinition_storage = << >>
    /\ input_framedefinition_storage = << >> /\ transmissionstatus = << >>
    /\ sent = << >> /\ call = None /\ caninterface = None /\ threads = << >>
    /\ given_values = << >>
    /\ myframe = None /\ myframedef = None
    /\ mysignal \in { r.sd : r \in { c \in { SignalInit("s", b, n, None, None, e, t) :
                                               b \in SignalValues.startbit, n \in SignalValues.numberofbits,
                                               e \in SignalValues.endianness, t \in SignalValues.signaltype } :
                                    c.exc = "none" } }
    /\ outcome = [op |-> "__init__", signal |-> 0, value |-> None,
                  before |-> << >>, raised |-> "none", returned |-> None]

\* The assignment that a setter makes to mysignal, or the exception.
Assign(op, value, r) ==
    /\ mysignal' = r.sd
    /\ outcome' = [op |-> op, signal |-> 0, value |-> value,
                   before |-> << >>, raised |-> r.exc, returned |-> None]
    /\ UNCHANGED << canbus_vars, myframe, myframedef >>

\* mysignal.startbit = value
signal_set_startbit(value) ==
    Assign("startbit", Some([int |-> value, str |-> ""]), startbit_setter(mysignal, value))

\* mysignal.numberofbits = value
signal_set_numberofbits(value) ==
    Assign("numberofbits", Some([int |-> value, str |-> ""]), numberofbits_setter(mysignal, value))

\* mysignal.endianness = value
signal_set_endianness(value) ==
    Assign("endianness", Some([int |-> 0, str |-> value]), endianness_setter(mysignal, value))

\* mysignal.signaltype = value
signal_set_signaltype(value) ==
    Assign("signaltype", Some([int |-> 0, str |-> value]), signaltype_setter(mysignal, value))

SignalNext ==
    \/ \E value \in SignalValues.startbit : signal_set_startbit(value)
    \/ \E value \in SignalValues.numberofbits : signal_set_numberofbits(value)
    \/ \E value \in SignalValues.endianness : signal_set_endianness(value)
    \/ \E value \in SignalValues.signaltype : signal_set_signaltype(value)

SpecSignal == SignalInitState /\ [][SignalNext]_vars

(***************************************************************************)
(* C20.  A signal definition is always valid: after a successful           *)
(* construction and after any sequence of successful assignments to start  *)
(* bit, number of bits, endianness and signal type, in any order,          *)
(* startbit + numberofbits <= 64 when it is little endian, and             *)
(* backward(startbit) + numberofbits <= 64 when it is big endian.          *)
(***************************************************************************)
C20_AlwaysValid ==
    IF mysignal.endianness = LITTLE_ENDIAN
    THEN mysignal.startbit + mysignal.numberofbits <= 64
    ELSE calculate_backward_bitnumber(mysignal.startbit) + mysignal.numberofbits <= 64


(***************************************************************************)
(* A frame, or a frame definition, on its own and the assignments to its   *)
(* attributes.                                                             *)
(***************************************************************************)
MaxSignalDefinitions == 2

\* myframe is one of the frames that CanFrame.__init__ accepts (it assigns
\* frame_format, then frame_id, then frame_data), or myframedef is one of
\* the frame definitions that CanFrameDefinition.__init__ accepts.
FrameInit ==
    /\ framedefinitions = << >> /\ ego_node_ids = {} /\ use_bcm = FALSE
    /\ output_signaldefinition_storage = << >> /\ output_frame_storage = << >>
    /\ frames = << >> /\ output_framedefinition_storage = << >>
    /\ input_framedefinition_storage = << >> /\ transmissionstatus = << >>
    /\ sent = << >> /\ call = None /\ caninterface = None /\ threads = << >>
    /\ given_values = << >>
    /\ mysignal = None
    /\ \/ /\ myframedef = None
          /\ myframe \in { CanFrame(frame_id, NullBytes(n), frame_format) :
                             frame_id \in { 0, MAX_CAN_FRAME_ID_STANDARD, MAX_CAN_FRAME_ID_STANDARD + 1,
                                            MAX_CAN_FRAME_ID_EXTENDED },
                             n \in { 0, MAX_NUMBER_OF_CAN_DATA_BYTES },
                             frame_format \in { CAN_FRAMEFORMAT_STANDARD, CAN_FRAMEFORMAT_EXTENDED } }
          /\ check_frame_id_and_format(myframe.frame_id, myframe.frame_format)
       \/ /\ myframe = None
          /\ myframedef \in { CanFrameDefinition(1, dlc, None, CAN_FRAMEFORMAT_STANDARD) :
                                dlc \in { 0, 1, MAX_NUMBER_OF_CAN_DATA_BYTES } }
    /\ outcome = [op |-> "__init__", signal |-> 0, value |-> None,
                  before |-> << >>, raised |-> "none", returned |-> None]

\* myframe.frame_id = value
frame_set_frame_id(value) ==
    /\ myframe # None
    /\ \E ok \in { check_frame_id_and_format(value, myframe.frame_format) } :
          /\ myframe' = IF ok THEN [myframe EXCEPT !.frame_id = value] ELSE myframe
          /\ outcome' = [op |-> "frame_id", signal |-> 0, value |-> Some(value),
                         before |-> myframe.frame_data,
                         raised |-> IF ok THEN "none" ELSE "CanException", returned |-> None]
    /\ UNCHANGED << canbus_vars, myframedef, mysignal >>

\* myframe.frame_format = value
frame_set_frame_format(value) ==
    /\ myframe # None
    /\ \E ok \in { value \in { CAN_FRAMEFORMAT_STANDARD, CAN_FRAMEFORMAT_EXTENDED } } :
          /\ myframe' = IF ok THEN [myframe EXCEPT !.frame_format = value] ELSE myframe
          /\ outcome' = [op |-> "frame_format", signal |-> 0, value |-> Some(value),
                         before |-> myframe.frame_data,
                         raised |-> IF ok THEN "none" ELSE "CanException", returned |-> None]
    /\ UNCHANGED << canbus_vars, myframedef, mysignal >>

\* myframe.frame_data = value, value a bytes object
frame_set_frame_data(value) ==
    /\ myframe # None
    /\ \E ok \in { ~(Len(value) > MAX_NUMBER_OF_CAN_DATA_BYTES) } :
          /\ myframe' = IF ok THEN [myframe EXCEPT !.frame_data = value] ELSE myframe
          /\ outcome' = [op |-> "frame_data", signal |-> 0, value |-> Some(value),
                         before |-> myframe.frame_data,
                         raised |-> IF ok THEN "none" ELSE "CanException", returned |-> None]
    /\ UNCHANGED << canbus_vars, myframedef, mysignal >>

\* myframedef.dlc = value
framedef_set_dlc(value) ==
    /\ myframedef # None
    /\ \E ok \in { ~(value < 0 \/ value > MAX_NUMBER_OF_CAN_DATA_BYTES) } :
          /\ myframedef' = IF ok THEN [myframedef EXCEPT !.dlc = value] ELSE myframedef
          /\ outcome' = [op |-> "dlc", signal |-> 0, value |-> Some(value),
                         before |-> << >>,
                         raised |-> IF ok THEN "none" ELSE "CanException", returned |-> None]
    /\ UNCHANGED << canbus_vars, myframe, mysignal >>

\* myframedef.signaldefinitions.append(sd): signaldefinitions is a plain list.
framedef_append_signaldefinition(sd) ==
    /\ myframedef # None
    /\ Len(myframedef.signaldefinitions) < MaxSignalDefinitions
    /\ myframedef' = [myframedef EXCEPT !.signaldefinitions = Append(@, sd)]
    /\ outcome' = [op |-> "signaldefinitions.append", signal |-> Len(myframedef.signaldefinitions) + 1,
                   value |-> None, before |-> << >>, raised |-> "none", returned |-> None]
    /\ UNCHANGED << canbus_vars, myframe, mysignal >>

FrameNext ==
    \/ \E value \in { 0 - 1, 0, MAX_CAN_FRAME_ID_STANDARD, MAX_CAN_FRAME_ID_STANDARD + 1,
                      MAX_CAN_FRAME_ID_EXTENDED, MAX_CAN_FRAME_ID_EXTENDED + 1 } :
          frame_set_frame_id(value)
    \/ \E value \in { CAN_FRAMEFORMAT_STANDARD, CAN_FRAMEFORMAT_EXTENDED, "other" } :
          frame_set_frame_format(value)
    \/ \E value \in { NullBytes(0), << 1 >>, NullBytes(MAX_NUMBER_OF_CAN_DATA_BYTES),
                      NullBytes(MAX_NUMBER_OF_CAN_DATA_BYTES + 1) } :
          frame_set_frame_data(value)
    \/ \E value \in { 0 - 1, 0, 1, 2, MAX_NUMBER_OF_CAN_DATA_BYTES, MAX_NUMBER_OF_CAN_DATA_BYTES + 1 } :
          framedef_set_dlc(value)
    \/ \E startbit \in { 0, 8, 56 }, endianness \in { LITTLE_ENDIAN, BIG_ENDIAN } :
          framedef_append_signaldefinition(
              CanSignalDefinition("s", startbit, 8, 1, 0, None, None, None, endianness,
                                  CAN_SIGNALTYPE_UNSIGNED))

SpecFrame == FrameInit /\ [][FrameNext]_vars

(***************************************************************************)
(* C21.  Every CanFrame, after a successful construction and after any     *)
(* sequence of successful assignments to frame_id, frame_format and        *)
(* frame_data, has its frame_id in 0..0x7FF when its format is standard    *)
(* and in 0..0x1FFFFFFF when it is extended, and at most 8 data bytes.     *)
(***************************************************************************)
C21_FrameAlwaysValid ==
    myframe # None =>
        /\ check_frame_id_and_format(myframe.frame_id, myframe.frame_format)
        /\ Len(myframe.frame_data) <= MAX_NUMBER_OF_CAN_DATA_BYTES

(***************************************************************************)
(* C22.  In every frame definition reachable by construction, appending    *)
(* signal definitions and assigning dlc, the minimum dlc of every          *)
(* contained signal is at most the dlc of the definition.                  *)
(***************************************************************************)
C22_SignalsFitDlc ==
    myframedef # None =>
        \A n \in 1..Len(myframedef.signaldefinitions) :
            get_minimum_dlc(myframedef.signaldefinitions[n]) <= myframedef.dlc


(***************************************************************************)
(* The constructors: of a raw interface, of a BCM interface and of a       *)
(* CanBus object; and set_receive_filters on a raw interface.              *)
(***************************************************************************)
\* Nothing is constructed.
InterfaceInit ==
    /\ framedefinitions = << >> /\ ego_node_ids = {} /\ use_bcm = FALSE
    /\ output_signaldefinition_storage = << >> /\ output_frame_storage = << >>
    /\ frames = << >> /\ output_framedefinition_storage = << >>
    /\ input_framedefinition_storage = << >> /\ transmissionstatus = << >>
    /\ sent = << >> /\ caninterface = None /\ threads = << >>
    /\ given_values = << >>
    /\ call = [op |-> "", args |-> << >>, rejected |-> << >>, raised |-> "none",
               status_before |-> << >>]
    /\ myframe = None /\ myframedef = None /\ mysignal = None /\ outcome = None

\* caninterface = SocketCanRawInterface(interfacename, timeout) when bcm is
\* FALSE, SocketCanBcmInterface(interfacename, timeout) when it is TRUE.
interface_init(bcm, interfacename, timeout) ==
    /\ \E opened \in { IF bcm THEN BcmInterfaceInit(interfacename, timeout)
                       ELSE RawInterfaceInit(interfacename, timeout) } :
          /\ caninterface' = [calls |-> opened.calls, bcm |-> bcm, open |-> opened.open]
          /\ call' = [op |-> "caninterface.__init__", args |-> << interfacename, timeout >>,
                      rejected |-> << >>, raised |-> opened.exc, status_before |-> << >>]
    /\ framedefinitions' = << >> /\ ego_node_ids' = {} /\ use_bcm' = bcm
    /\ output_signaldefinition_storage' = << >> /\ output_frame_storage' = << >>
    /\ frames' = << >> /\ output_framedefinition_storage' = << >>
    /\ input_framedefinition_storage' = << >> /\ transmissionstatus' = << >>
    /\ sent' = << >>
    /\ given_values' = << >>
    /\ UNCHANGED << myframe, myframedef, mysignal, outcome, threads >>

\* CanBus(config, interfacename, timeout, use_bcm): the interface is opened,
\* then the storages are built.
canbus_init(config_framedefinitions, config_ego_node_ids, interfacename, timeout, bcm) ==
    /\ \E opened \in { IF bcm THEN BcmInterfaceInit(interfacename, timeout)
                       ELSE RawInterfaceInit(interfacename, timeout) } :
       \E this \in { CanBusObject(config_framedefinitions, config_ego_node_ids, bcm) } :
       \E built \in { opened.exc = "none" /\ this.exc = "none" } :
          /\ caninterface' = [calls |-> opened.calls, bcm |-> bcm, open |-> opened.open]
          /\ call' = [op |-> "__init__", args |-> << interfacename, timeout >>,
                      rejected |-> << >>,
                      raised |-> IF opened.exc # "none" THEN opened.exc ELSE this.exc,
                      status_before |-> << >>]
          /\ framedefinitions' = IF built THEN this.framedefinitions ELSE << >>
          /\ ego_node_ids' = IF built THEN this.ego_node_ids ELSE {}
          /\ output_framedefinition_storage' =
                IF built THEN this.output_framedefinition_storage ELSE << >>
          /\ input_framedefinition_storage' =
                IF built THEN this.input_framedefinition_storage ELSE << >>
          /\ transmissionstatus' = IF built THEN this.transmissionstatus ELSE << >>
          /\ frames' = IF built THEN this.frames ELSE << >>
          /\ output_signaldefinition_storage' =
                IF built THEN this.output_signaldefinition_storage ELSE << >>
          /\ output_frame_storage' = IF built THEN this.output_frame_storage ELSE << >>
          /\ given_values' =
                IF built THEN [name \in DOMAIN this.output_signaldefinition_storage |-> None]
                ELSE << >>
    /\ use_bcm' = bcm
    /\ sent' = << >>
    /\ UNCHANGED << myframe, myframedef, mysignal, outcome, threads >>

\* caninterface.set_receive_filters(framenumbers) on a raw interface.
set_receive_filters(framenumbers) ==
    /\ caninterface # None
    /\ ~caninterface.bcm /\ caninterface.open /\ call.raised = "none"
    /\ sent' = raw_set_receive_filters(framenumbers)
    /\ call' = [op |-> "set_receive_filters", args |-> << framenumbers >>,
                rejected |-> << >>, raised |-> "none", status_before |-> << >>]
    /\ UNCHANGED << myframe, myframedef, mysignal, outcome, framedefinitions, ego_node_ids, use_bcm, storage_vars, frames, transmissionstatus >>

\* The configurations given to CanBus: the frame definitions of the model;
\* one frame of node A whose signal "s" does not fit its dlc; two frames of
\* node A that both have a signal named "s".
InterfaceConfigurations ==
    LET OneSignalFrame(frame_id, dlc, startbit, numberofbits) ==
            [CanFrameDefinition(frame_id, dlc, None, CAN_FRAMEFORMAT_STANDARD)
                EXCEPT !.producer_ids = {"A"},
                       !.signaldefinitions =
                           << CanSignalDefinition("s", startbit, numberofbits, 1, 0, None, None,
                                                  None, LITTLE_ENDIAN,
                                                  CAN_SIGNALTYPE_UNSIGNED) >>]
    IN  { FrameDefinitions,
          << OneSignalFrame(1, 1, 56, 8) >>,
          << OneSignalFrame(1, 8, 56, 8), OneSignalFrame(2, 2, 8, 4) >> }

InterfaceNext ==
    \/ \E bcm \in BOOLEAN, interfacename \in { "vcan0", "can9" },
          timeout \in { None } \cup
                      { Some([mantissa |-> m[1], exponent |-> m[2], str |-> m[3]]) :
                          m \in { << 1, 0, "" >>, << 0 - 1, 0, "" >>, << 1, 10, "" >>,
                                  << 0, 0, "1" >> } } :
          \/ interface_init(bcm, interfacename, timeout)
          \/ \E ego \in { {}, {"A"}, {"B"} },
                defs \in InterfaceConfigurations :
                canbus_init(defs, ego, interfacename, timeout, bcm)
    \/ \E n \in { 0, 1, 2, MAX_NUMBER_OF_RAW_RECEIVE_FILTERS - 1,
                  MAX_NUMBER_OF_RAW_RECEIVE_FILTERS, MAX_NUMBER_OF_RAW_RECEIVE_FILTERS + 1 },
          first \in { 1, 2 } :
          set_receive_filters([k \in 1..n |-> IF k = 1 THEN first ELSE IF k = first THEN 1 ELSE k])

SpecInterface == InterfaceInit /\ [][InterfaceNext]_vars

(***************************************************************************)
(* C23.  Whenever the construction of a raw interface, of a BCM interface  *)
(* or of a CanBus object ends in an error, the socket that was opened has  *)
(* been closed.                                                            *)
(***************************************************************************)
C23_FailedConstructionClosesSocket ==
    (call.op \in { "caninterface.__init__", "__init__" } /\ call.raised # "none") =>
        ~caninterface.open

(***************************************************************************)
(* C25.  set_receive_filters makes no socket call for an empty list and    *)
(* for a list of MAX_NUMBER_OF_RAW_RECEIVE_FILTERS (100) or more ids, and  *)
(* raises nothing; otherwise it installs exactly one entry (frame_id,      *)
(* 0x7FF) per given id, in the given order.                                *)
(***************************************************************************)
C25_FiltersOnlyBelowMaximum ==
    call.op = "set_receive_filters" =>
        LET framenumbers == call.args[1]
        IN  /\ call.raised = "none"
            /\ IF Len(framenumbers) = 0 \/ Len(framenumbers) >= MAX_NUMBER_OF_RAW_RECEIVE_FILTERS
               THEN sent = << >>
               ELSE /\ Len(sent) = 1
                    /\ sent[1].proto = "setsockopt"
                    /\ sent[1].filters = [n \in 1..Len(framenumbers) |-> << framenumbers[n], 2047 >>]


(***************************************************************************)
(* C26.  The transmission status of an outbound frame only ever changes    *)
(* from periodic-not-yet-started to periodic: no operation changes a       *)
(* periodic status back or changes a nonperiodic status.  So a command     *)
(* with STARTTIMER is only issued for a frame that was not yet started,    *)
(* and a send_signals after stop_sending issues, for a frame that was      *)
(* periodic, only TX_SETUP commands without SETTIMER and STARTTIMER.       *)
(***************************************************************************)
C26_StatusOnlyStarts ==
    [][ /\ DOMAIN transmissionstatus' = DOMAIN transmissionstatus
        /\ \A id \in DOMAIN transmissionstatus :
              /\ transmissionstatus'[id] # transmissionstatus[id] =>
                    /\ transmissionstatus[id] = STATUS_PERIODIC_NOT_YET_STARTED
                    /\ transmissionstatus'[id] = STATUS_PERIODIC
              /\ \A k \in 1..Len(sent') :
                    (/\ use_bcm /\ InSendSignals'
                     /\ MessageFrameId(sent'[k]) = id
                     /\ HasFlag(sent'[k].header.flags, BCM_FLAG_STARTTIMER)) =>
                        transmissionstatus[id] = STATUS_PERIODIC_NOT_YET_STARTED
              /\ \A k \in 1..Len(sent') :
                    (/\ use_bcm /\ call.op = "stop_sending" /\ call'.op = "send_signals"
                     /\ MessageFrameId(sent'[k]) = id
                     /\ transmissionstatus[id] = STATUS_PERIODIC) =>
                        /\ sent'[k].header.opcode = CAN_BCM_TX_SETUP
                        /\ sent'[k].header.flags = 0 ]_vars

\* A send_signals call has started a frame: its status was not yet started
\* and is periodic now.
C26_Witness ==
    /\ use_bcm /\ call.op = "send_signals" /\ call.raised = "none"
    /\ \E id \in TouchedFrameIds :
          /\ call.status_before[id] = STATUS_PERIODIC_NOT_YET_STARTED
          /\ transmissionstatus[id] = STATUS_PERIODIC
          /\ \E k \in 1..Len(sent) :
                /\ MessageFrameId(sent[k]) = id
                /\ HasFlag(sent[k].header.flags, BCM_FLAG_STARTTIMER)


(***************************************************************************)
(* C30.  If send_signals fails while updating signals (unknown signal      *)
(* name, value outside the representable range, no arguments or an         *)
(* argument that is no dict), no command has been issued to the interface  *)
(* in that call and no frame's transmission status has changed.            *)
(***************************************************************************)
C30_FailedSendIssuesNothing ==
    (InSendSignals /\ call.raised # "none") =>
        /\ sent = << >>
        /\ transmissionstatus = call.status_before

\* A send_signals call has failed at its second item, after the first item
\* was written into the buffer of a frame that is not yet started.
C30_Witness ==
    /\ use_bcm /\ call.op = "send_signals" /\ call.raised = "CanException"
    /\ Len(call.args) = 2
    /\ call.args[1][1] \in DOMAIN output_frame_storage
    /\ call.args[1][2] = None
    /\ call.status_before[output_frame_storage[call.args[1][1]]]
          = STATUS_PERIODIC_NOT_YET_STARTED
    /\ sent = << >>


(***************************************************************************)
(* C28.  After construction there is one working frame buffer per outbound *)
(* frame id: every signal name of an outbound frame definition maps to the *)
(* buffer of the frame that owns the signal, and that buffer's frame_id,   *)
(* frame_format and length equal the definition's id, format and dlc.      *)
(***************************************************************************)
C28_OneBufferPerOutboundFrame ==
    \A i \in 1..Len(framedefinitions) :
        LET framedef == framedefinitions[i]
        IN  is_outbound(framedef, ego_node_ids) =>
                \A n \in 1..Len(framedef.signaldefinitions) :
                    LET signalname == framedef.signaldefinitions[n].signalname
                    IN  /\ signalname \in DOMAIN output_frame_storage
                        /\ output_frame_storage[signalname] \in DOMAIN frames
                        /\ LET fr == frames[output_frame_storage[signalname]]
                           IN  /\ fr.frame_id = framedef.frame_id
                               /\ fr.frame_format = framedef.frame_format
                               /\ Len(fr.frame_data) = framedef.dlc


BitsInit ==
    /\ framedefinitions = << >> /\ ego_node_ids = {} /\ use_bcm = FALSE
    /\ output_signaldefinition_storage = << >> /\ output_frame_storage = << >>
    /\ frames = << >> /\ output_framedefinition_storage = << >>
    /\ input_framedefinition_storage = << >> /\ transmissionstatus = << >>
    /\ sent = << >> /\ call = None /\ caninterface = None /\ threads = << >>
    /\ given_values = << >>
    /\ myframedef = None
    /\ mysignal \in { CanSignalDefinition("s", startbit, numberofbits, 1, 0, None, None, None,
                                          endianness, CAN_SIGNALTYPE_UNSIGNED) :
                        startbit \in 0..(BITS_IN_FULL_DATA - 1),
                        numberofbits \in { 1, 2, 7, 8, 9, 16, 17, BITS_IN_FULL_DATA },
                        endianness \in { LITTLE_ENDIAN, BIG_ENDIAN } }
    /\ myframe \in { CanFrame(1, frame_data, CAN_FRAMEFORMAT_STANDARD) :
                       frame_data \in { << 1, 2, 4, 8, 16, 32, 64, 128 >>,
                                        << 165, 90, 60, 195, 15, 240, 51, 204 >>,
                                        << 255, 0, 254, 1, 127, 128, 85, 170 >> } }
    /\ outcome = [op |-> "", signal |-> 0, value |-> None,
                  before |-> myframe.frame_data, raised |-> "none", returned |-> None]

\* get_busvalue_from_bytes(myframe.frame_data, endianness, numberofbits, startbit)
bits_get_busvalue_from_bytes ==
    \E r \in { get_busvalue_from_bytes(myframe.frame_data, mysignal.endianness,
                                       mysignal.numberofbits, mysignal.startbit) } :
        /\ outcome' = [op |-> "get_busvalue_from_bytes", signal |-> 0, value |-> None,
                       before |-> myframe.frame_data, raised |-> r.exc,
                       returned |-> IF r.exc = "none" THEN Some(r.value) ELSE None]
        /\ UNCHANGED << canbus_vars, myframe, myframedef, mysignal >>

\* get_shiftedvalue_from_busvalue(input_value, endianness, numberofbits, startbit);
\* for little endian it asserts that the last bit is within the 8 bytes.
bits_get_shiftedvalue_from_busvalue(input_value) ==
    \E asserted \in { mysignal.endianness = BIG_ENDIAN
                      \/ (mysignal.startbit + mysignal.numberofbits - 1) \div BITS_PER_BYTE
                            < MAX_NUMBER_OF_CAN_DATA_BYTES } :
        /\ outcome' = [op |-> "get_shiftedvalue_from_busvalue", signal |-> 0,
                       value |-> Some(input_value), before |-> myframe.frame_data,
                       raised |-> IF asserted THEN "none" ELSE "AssertionError",
                       returned |-> IF asserted
                                    THEN Some(get_shiftedvalue_from_busvalue(
                                                 input_value, mysignal.endianness,
                                                 mysignal.numberofbits, mysignal.startbit))
                                    ELSE None]
        /\ UNCHANGED << canbus_vars, myframe, myframedef, mysignal >>

\* The bus values: all bits set, the lowest, the highest, every other bit.
BitsNext ==
    \/ bits_get_busvalue_from_bytes
    \/ \E input_value \in { 0..(mysignal.numberofbits - 1), {0}, {mysignal.numberofbits - 1},
                            { i \in 0..(mysignal.numberofbits - 1) : i % 2 = 1 } } :
          bits_get_shiftedvalue_from_busvalue(input_value)

SpecBits == BitsInit /\ [][BitsNext]_vars

(***************************************************************************)
(* C27.  For every valid (endianness, startbit, numberofbits) and every    *)
(* payload of 8 bytes, the extracted unsigned field is the sum over i in   *)
(* 0..numberofbits-1 of 2^i times the payload bit at position p_i, where   *)
(* p_i is the normal bit startbit + i for little endian and the backward   *)
(* bit backward(startbit) + i for big endian; inserting a value writes     *)
(* exactly these positions.  The bit of byte b at offset k has the normal  *)
(* number 8b + k and the backward number (7-b)*8 + k, which is its bit     *)
(* number in the payload taken as a 64-bit integer.                        *)
(***************************************************************************)
C27_FieldBitPositions ==
    LET Backward(n) == (7 - (n \div 8)) * 8 + (n % 8)
        p(i) == IF mysignal.endianness = LITTLE_ENDIAN
                THEN Backward(mysignal.startbit + i)
                ELSE Backward(mysignal.startbit) + i
        width == mysignal.numberofbits
        valid == IF mysignal.endianness = LITTLE_ENDIAN
                 THEN mysignal.startbit + width <= 64
                 ELSE Backward(mysignal.startbit) + width <= 64
    IN  valid =>
          /\ outcome.op = "get_busvalue_from_bytes" =>
                /\ outcome.raised = "none"
                /\ Val(outcome.returned)
                      = { i \in 0..(width - 1) : p(i) \in can_bytes_to_int(outcome.before) }
          /\ outcome.op = "get_shiftedvalue_from_busvalue" =>
                /\ outcome.raised = "none"
                /\ Val(outcome.returned) = { p(i) : i \in Val(outcome.value) }

\* A little endian field of 17 bits that starts within a byte was extracted
\* from three bytes, and it has bits set and bits clear.
C27_Witness ==
    /\ outcome.op = "get_busvalue_from_bytes" /\ outcome.raised = "none"
    /\ mysignal.endianness = LITTLE_ENDIAN
    /\ mysignal.numberofbits = 17 /\ mysignal.startbit = 11
    /\ Val(outcome.returned) # {}
    /\ Val(outcome.returned) # 0..16


(***************************************************************************)
(* canbus.py: send_signals called by several threads on one CanBus object. *)
(* send_signals takes no lock, so another thread may run between two       *)
(* iterations of its loops: one step of a thread is one iteration.  Each   *)
(* thread makes one call.                                                  *)
(***************************************************************************)
MaxThreads == 2

\* One frame of node A with three signals of three bits.
ThreadFrameDefinitions ==
    LET Bit(signalname, startbit) ==
            CanSignalDefinition(signalname, startbit, 3, 1, 0, None, None, None,
                                LITTLE_ENDIAN, CAN_SIGNALTYPE_UNSIGNED)
    IN  << [CanFrameDefinition(1, 2, Some(20), CAN_FRAMEFORMAT_STANDARD)
               EXCEPT !.producer_ids = {"A"},
                      !.signaldefinitions = << Bit("p", 0), Bit("q", 3), Bit("r", 8) >>] >>

ThreadsInit ==
    /\ \E bcm \in BOOLEAN : CanBusInit(ThreadFrameDefinitions, {"A"}, bcm)
    /\ myframe = None /\ myframedef = None /\ mysignal = None /\ outcome = None

\* A thread calls send_signals(signals_to_send): the arguments are checked.
thread_send_signals(signals_to_send) ==
    /\ Len(threads) < MaxThreads
    /\ threads' = Append(threads, [pc |-> "updating", signals_to_send |-> signals_to_send,
                                   n |-> 0, frames_to_send |-> {}, raised |-> "none"])
    /\ call' = [op |-> "send_signals", args |-> signals_to_send, rejected |-> << >>,
                raised |-> "none", status_before |-> transmissionstatus]
    /\ UNCHANGED << myframe, myframedef, mysignal, outcome, framedefinitions, ego_node_ids, use_bcm, output_signaldefinition_storage,
                    output_frame_storage, output_framedefinition_storage,
                    input_framedefinition_storage, caninterface, given_values,
                    frames, transmissionstatus, sent >>

\* One iteration of "for signalname, value in signals_to_send.items()".
thread_update_signal(t) ==
    /\ threads[t].pc = "updating"
    /\ threads[t].n < Len(threads[t].signals_to_send)
    /\ \E upd \in { UpdateSignals(<< threads[t].signals_to_send[threads[t].n + 1] >>, 1,
                                  output_signaldefinition_storage, output_frame_storage,
                                  frames) } :
          /\ frames' = upd.frames
          /\ threads' = [threads EXCEPT
                            ![t].n = @ + 1,
                            ![t].frames_to_send = @ \cup upd.frames_to_send,
                            ![t].raised = upd.exc,
                            ![t].pc = IF upd.exc = "none" THEN "updating" ELSE "returned"]
    /\ UNCHANGED << myframe, myframedef, mysignal, outcome, framedefinitions, ego_node_ids, use_bcm, output_signaldefinition_storage,
                    output_frame_storage, output_framedefinition_storage,
                    input_framedefinition_storage, caninterface, given_values,
                    transmissionstatus, sent, call >>

\* One iteration of "for frame in frames_to_send", for the frame frame_id.
thread_transmit_frame(t, frame_id) ==
    /\ threads[t].pc = "updating"
    /\ threads[t].n = Len(threads[t].signals_to_send)
    /\ frame_id \in threads[t].frames_to_send
    /\ \E tx \in { TransmitFrames(<< frame_id >>, 1, frames, framedefinitions,
                                  transmissionstatus, use_bcm) } :
          /\ sent' = sent \o tx.sent
          /\ transmissionstatus' = tx.status
    /\ threads' = [threads EXCEPT ![t].frames_to_send = @ \ {frame_id}]
    /\ UNCHANGED << myframe, myframedef, mysignal, outcome, framedefinitions, ego_node_ids, use_bcm, output_signaldefinition_storage,
                    output_frame_storage, output_framedefinition_storage,
                    input_framedefinition_storage, caninterface, given_values,
                    frames, call >>

\* send_signals returns.
thread_return(t) ==
    /\ threads[t].pc = "updating"
    /\ threads[t].n = Len(threads[t].signals_to_send)
    /\ threads[t].frames_to_send = {}
    /\ threads' = [threads EXCEPT ![t].pc = "returned"]
    /\ UNCHANGED << myframe, myframedef, mysignal, outcome, framedefinitions, ego_node_ids, use_bcm, output_signaldefinition_storage,
                    output_frame_storage, output_framedefinition_storage,
                    input_framedefinition_storage, caninterface, given_values,
                    frames, transmissionstatus, sent, call >>

\* The dicts: one or two items with distinct names, each name one of the
\* signals or "x", each value MaxValue.
ThreadsNext ==
    \/ \E signals_to_send \in
            { d \in SignalDicts(DOMAIN output_signaldefinition_storage) :
                  Len(d) >= 1 /\ \A i \in 1..Len(d) : d[i][2] = Some(Num(MaxValue)) } :
          thread_send_signals(signals_to_send)
    \/ \E t \in 1..Len(threads) :
          \/ thread_update_signal(t)
          \/ \E frame_id \in DOMAIN frames : thread_transmit_frame(t, frame_id)
          \/ thread_return(t)

SpecThreads == ThreadsInit /\ [][ThreadsNext]_vars

(***************************************************************************)
(* C24.  When two send_signals calls run concurrently on the same bus and  *)
(* touch the same frame_id, every transmitted payload of that frame equals *)
(* the buffer after all updates of a whole number of the calls, never the  *)
(* buffer after only some of one call's signal updates.                    *)
(***************************************************************************)
C24_NoPartialBufferTransmitted ==
    LET initial == CanBusObject(framedefinitions, ego_node_ids, use_bcm).frames
        After(frs, t) ==
            UpdateSignals(threads[t].signals_to_send, Len(threads[t].signals_to_send),
                          output_signaldefinition_storage, output_frame_storage, frs).frames
        calls == 1..Len(threads)
        whole == { initial } \cup { After(initial, t) : t \in calls }
                     \cup { After(After(initial, tu[1]), tu[2]) :
                              tu \in { c \in calls \X calls : c[1] # c[2] } }
    IN  \A k \in 1..Len(sent) :
            \E frs \in whole : CarriedFrame(sent[k]) = frs[MessageFrameId(sent[k])]

====
